---------------------------- MODULE Spec2Model ----------------------------
(***************************************************************************)
(* Vote / karma engine and comment / message threads of the redditclone    *)
(* server.                                                                 *)
(*                                                                         *)
(* The store is the SQLite database of pkg/database/db.go: the users,      *)
(* subreddits, posts, comments, votes and messages tables, every foreign   *)
(* key of which is ON DELETE CASCADE.  Every repository method takes the   *)
(* global mutex DBMu, runs one SQL statement and releases the mutex; a     *)
(* service method (CastVote, ChangeVote, RemoveVote, AddComment, ...) is a *)
(* sequence of such repository calls, run by one goroutine per HTTP        *)
(* request, which waits in DBMu.Lock() before each of them.                *)
(*                                                                         *)
(* Spec runs the vote operations concurrently, SpecSeq runs them one after *)
(* the other, SpecLock runs them under a fair mutex.  SpecThread runs the   *)
(* comment, post and message operations concurrently, SpecReply the        *)
(* replies and the edits.  SpecList runs the listings one after the other  *)
(* while the clock runs, SpecReplies runs the listing of replies next to   *)
(* concurrent inserts.  SpecRemove runs concurrent removals of one vote,   *)
(* SpecEdit the vote operations next to content edits, SpecMutex every     *)
(* kind of repository write next to a reader.  The specifications of the   *)
(* comments and messages also run CreatePost and the deletes of a post, a  *)
(* comment, a message, a user and a subreddit.                             *)
(*                                                                         *)
(* The DatabaseManager of database/methods.go is a second store with its   *)
(* own database and its own sync.RWMutex; SpecManager runs its Vote next   *)
(* to its readers.                                                         *)
(***************************************************************************)
EXTENDS Integers, FiniteSets, Sequences, TLC

(* ------------------------------ bounds --------------------------------- *)
\* the request goroutines that run concurrently
Procs == {1, 2}
\* number of registered users (user ids 1..NumUsers)
NumUsers == 2
\* post / comment ids a request may name; only the ids of Init exist
MaxTargetID == 1
\* number of service calls started in one behaviour
MaxOps == 2

Users == 1..NumUsers
TargetIDs == 1..MaxTargetID

(* ----------------------------- constants ------------------------------- *)
\* SQL NULL, a nil *int of models.Vote, and the int 0 "no id" of RemoveVote
NULL == 0

\* vote_type strings a request can carry; the last one is not a legal type
VoteTypes == {"upvote", "downvote", "sideways"}

VARIABLES
    votes,       \* votes table: vote id -> row
    nextVoteID,  \* AUTOINCREMENT sequence of the votes table
    posts,       \* posts table: post id -> row
    comments,    \* comments table: comment id -> row
    DBMu,        \* database.DBMu: NULL when free, else the holding goroutine
    pc,          \* position of each goroutine
    frame,       \* arguments and locals of the call each goroutine runs
    response,    \* the call that returned last and what it returned
    ops,         \* number of service calls started
    nextCommentID,  \* AUTOINCREMENT sequence of the comments table
    messages,       \* messages table: message id -> row
    nextMessageID,  \* AUTOINCREMENT sequence of the messages table
    hist,        \* history variable: what a sequential run has done so far
    now,         \* CURRENT_TIMESTAMP, in whole seconds
    listing,     \* the list call that returned last and the rows it returned
    dm_db,       \* DatabaseManager.db: the committed rows of its tables
    dm_mu,       \* DatabaseManager.mu: the writer and the readers holding it
    users,       \* users table: user id -> row
    subreddits,  \* subreddits table: subreddit id -> row
    nextPostID,  \* AUTOINCREMENT sequence of the posts table
    nextUserID,  \* AUTOINCREMENT sequence of the users table
    nextSubredditID  \* AUTOINCREMENT sequence of the subreddits table

vars == <<votes, nextVoteID, posts, comments, DBMu, pc, frame, response, ops,
          nextCommentID, messages, nextMessageID, hist, now, listing,
          dm_db, dm_mu, users, subreddits, nextPostID, nextUserID,
          nextSubredditID>>
store == <<votes, nextVoteID, posts, comments>>
manager == <<dm_db, dm_mu>>
\* the tables the posts hang on, and the sequences of their ids and of the
\* ids of the posts
registry == <<users, subreddits, nextPostID, nextUserID, nextSubredditID>>
threads == <<nextCommentID, messages, nextMessageID, now, listing,
             manager, registry>>
\* what the repositories work on: the DatabaseManager touches none of it
repos == <<votes, nextVoteID, posts, comments, DBMu, nextCommentID, messages,
           nextMessageID, now, registry>>

(* ------------------------------ models --------------------------------- *)
\* models.Vote; ID = NULL stands for a nil *models.Vote
NoVote == [ID |-> NULL, UserID |-> NULL, PostID |-> NULL, CommentID |-> NULL,
           VoteType |-> ""]

\* models.Post / models.Comment as loaded by UpdateKarma; ID = NULL: none
NoTarget == [ID |-> NULL, Karma |-> 0, Content |-> ""]

\* models.Comment as decoded from a request or loaded from the store
NoComment == [ID |-> NULL, Content |-> "", AuthorID |-> NULL, PostID |-> NULL,
              ParentID |-> NULL, Karma |-> 0]

\* models.Message as decoded from a request
NoMessage == [ID |-> NULL, SenderID |-> NULL, ReceiverID |-> NULL,
              Content |-> "", ParentID |-> NULL]

\* models.User and models.Subreddit as decoded from a request.  A username,
\* an e-mail address and the name of a subreddit are written as numbers, 0
\* (NULL) for the empty string.
NoUser == [ID |-> NULL, Username |-> NULL, Email |-> NULL, Password |-> ""]
NoSubreddit == [ID |-> NULL, Name |-> NULL, CreatedBy |-> NULL]

\* models.Post as decoded from a request
NoPost == [ID |-> NULL, Title |-> "", Content |-> "", AuthorID |-> NULL,
           SubredditID |-> NULL]

\* no transaction begun: *sql.Tx with the database as its statements have
\* left it so far
NoTx == [open |-> FALSE, db |-> <<>>]

EmptyFrame == [op |-> "none", vote |-> NoVote, existingVote |-> NoVote,
               targetType |-> "", targetID |-> NULL, delta |-> 0,
               target |-> NoTarget, comment |-> NoComment,
               message |-> NoMessage, post |-> NoPost,
               user |-> NoUser, subreddit |-> NoSubreddit,
               limit |-> 0, offset |-> 0,
               userID |-> NULL, value |-> 0, tx |-> NoTx,
               locked |-> FALSE]

\* the frame with every local dropped that no later statement reads; the
\* steps below put back the locals that are still read
Live(f) == [EmptyFrame EXCEPT !.op = f.op]

\* what a handler learns from a call: the method and the error it returned
\* ("ok" for nil)
Return(op, r) == [op |-> op, result |-> r]

(* --------------------------- SQL primitives ---------------------------- *)
\* "a = b" of SQL: never true when either side is NULL
SqlEq(a, b) == a # NULL /\ b # NULL /\ a = b

Min(S) == CHOOSE x \in S : \A y \in S : x <= y

VoteRow(id) == [ID |-> id, UserID |-> votes[id].UserID,
                PostID |-> votes[id].PostID,
                CommentID |-> votes[id].CommentID,
                VoteType |-> votes[id].VoteType]

\* QueryRow(...).Scan: the first matching row in rowid order, or ErrNoRows
GetVoteByUserAndPost(userID, postID) ==
    LET m == {id \in DOMAIN votes : /\ SqlEq(votes[id].UserID, userID)
                                    /\ SqlEq(votes[id].PostID, postID)
                                    /\ votes[id].CommentID = NULL}
    IN IF m = {} THEN NoVote ELSE VoteRow(Min(m))

GetVoteByUserAndComment(userID, commentID) ==
    LET m == {id \in DOMAIN votes : /\ SqlEq(votes[id].UserID, userID)
                                    /\ SqlEq(votes[id].CommentID, commentID)
                                    /\ votes[id].PostID = NULL}
    IN IF m = {} THEN NoVote ELSE VoteRow(Min(m))

\* UNIQUE(user_id, post_id, comment_id): two rows collide only when all
\* three columns compare equal, and NULL compares equal to nothing
UniqueViolation(v) ==
    \E id \in DOMAIN votes : /\ SqlEq(votes[id].UserID, v.UserID)
                             /\ SqlEq(votes[id].PostID, v.PostID)
                             /\ SqlEq(votes[id].CommentID, v.CommentID)

\* a votes table without the CHECK on vote_type
CheckVoteType_Any(t) == TRUE

\* CHECK (vote_type IN ('upvote', 'downvote'))
CheckVoteType(t) == t \in {"upvote", "downvote"}

\* FOREIGN KEY clauses of the votes table (PRAGMA foreign_keys = ON)
ForeignKeysHold(v) ==
    /\ v.UserID \in DOMAIN users
    /\ v.PostID = NULL \/ v.PostID \in DOMAIN posts
    /\ v.CommentID = NULL \/ v.CommentID \in DOMAIN comments

\* INSERT INTO votes succeeds
CanCreateVote(v) ==
    /\ CheckVoteType(v.VoteType)
    /\ ForeignKeysHold(v)
    /\ ~UniqueViolation(v)

\* UPDATE posts SET title, content, updated_at WHERE id: the new row
UpdatePostRow(row, post) == [row EXCEPT !.Content = post.Content]

\* UpdateCommentRow that writes the karma of the struct as well
UpdateCommentRow_AllFields(row, comment) ==
    [row EXCEPT !.Content = comment.Content, !.Karma = comment.Karma]

\* UPDATE comments SET content, updated_at WHERE id: the new row
UpdateCommentRow(row, comment) == [row EXCEPT !.Content = comment.Content]

(* --------------------------- service helpers --------------------------- *)
\* CastVote and ChangeVote without the target check
ValidTarget_Any(v) == TRUE

\* the target check of CastVote and ChangeVote: exactly one of the two ids
ValidTarget(v) == ~(\/ (v.PostID = NULL /\ v.CommentID = NULL)
                    \/ (v.PostID # NULL /\ v.CommentID # NULL))

\* delta of CastVote
CastDelta(voteType) == IF voteType = "upvote" THEN 1 ELSE -1

\* delta of ChangeVote
ChangeDelta(voteType) == IF voteType = "upvote" THEN 2 ELSE -2

\* delta of RemoveVote
RemoveDelta(voteType) == IF voteType = "upvote" THEN -1 ELSE 1

\* CastVoteCheck without the "already voted" rejection
CastVoteCheck_NoConflict(existingVote) == "proceed"

\* outcome of the existence check of CastVote
CastVoteCheck(existingVote) ==
    IF existingVote.ID # NULL THEN "conflict" ELSE "proceed"

\* ChangeVoteCheck without the same-type rejection
ChangeVoteCheck_NoNoOp(existingVote, voteType) ==
    IF existingVote.ID = NULL THEN "not_found" ELSE "proceed"

\* outcome of the checks of ChangeVote after the lookup
ChangeVoteCheck(existingVote, voteType) ==
    IF existingVote.ID = NULL THEN "not_found"
    ELSE IF existingVote.VoteType = voteType THEN "noop"
    ELSE "proceed"

\* RemoveVoteCheck that ignores the lookup error
RemoveVoteCheck_IgnoreErr(existingVote) == "proceed"

\* outcome of the lookup of RemoveVote
RemoveVoteCheck(existingVote) ==
    IF existingVote.ID = NULL THEN "not_found" ELSE "proceed"

\* LookupVote that always takes the comment branch
LookupVote_ByComment(userID, postID, commentID) ==
    GetVoteByUserAndComment(userID, commentID)

\* the lookup the three operations share: by post when a post id is given
LookupVote(userID, postID, commentID) ==
    IF postID # NULL THEN GetVoteByUserAndPost(userID, postID)
    ELSE GetVoteByUserAndComment(userID, commentID)

(* ---------------------------- the observer ----------------------------- *)
\* hist follows a run whose calls are made one after the other: the call in
\* progress (req), a CastVote and the RemoveVote that directly follows it
\* (rt), and how many steps of the scenario of Scenario the run has made so
\* far (sc, -1 once the run has left the scenario).  It is switched off
\* where calls run concurrently.
NoReq == [op |-> "none", vote |-> NoVote]
NoRT == [stage |-> "none", vote |-> NoVote, before |-> <<>>,
         result |-> "none"]
NoHist == [on |-> FALSE, req |-> NoReq, rt |-> NoRT, sc |-> -1,
           logging |-> FALSE, calls |-> <<>>, log |-> <<>>]
StartHist == [NoHist EXCEPT !.on = TRUE, !.sc = 0]

\* the observer of concurrent calls: it keeps the vote each running call
\* was made with (calls) and the calls that have returned, in the order of
\* their return, with what they returned (log)
LogHist == [NoHist EXCEPT !.logging = TRUE,
                          !.calls = [p \in Procs |-> NoVote]]

\* goroutine p starts a call with frame f
Noted(h, p, f) ==
    IF ~h.logging THEN h ELSE [h EXCEPT !.calls[p] = f.vote]

\* the call of method op that goroutine p made with the vote v returns r
Logged(h, p, op, v, r) ==
    IF ~h.logging THEN h
    ELSE [h EXCEPT !.log = Append(@, [op |-> op, vote |-> v, result |-> r]),
                   !.calls[p] = NoVote]

\* the scenario: A (user 1) upvotes post 1, B (user 2) upvotes it, A changes
\* to a downvote, B removes the vote
Scenario ==
    << [op |-> "CastVote",
        vote |-> [NoVote EXCEPT !.UserID = 1, !.PostID = 1,
                                !.VoteType = "upvote"]],
       [op |-> "CastVote",
        vote |-> [NoVote EXCEPT !.UserID = 2, !.PostID = 1,
                                !.VoteType = "upvote"]],
       [op |-> "ChangeVote",
        vote |-> [NoVote EXCEPT !.UserID = 1, !.PostID = 1,
                                !.VoteType = "downvote"]],
       [op |-> "RemoveVote",
        vote |-> [NoVote EXCEPT !.UserID = 2, !.PostID = 1]] >>

\* a call with frame f starts
Called(h, f) ==
    IF ~h.on THEN h
    ELSE [h EXCEPT
            !.req = [op |-> f.op, vote |-> f.vote],
            !.rt = IF f.op = "CastVote"
                   THEN [stage |-> "casting", vote |-> f.vote,
                         before |-> <<votes, posts, comments>>,
                         result |-> "none"]
                   ELSE IF /\ f.op = "RemoveVote"
                           /\ h.rt.stage = "cast"
                           /\ f.vote.UserID = h.rt.vote.UserID
                           /\ f.vote.PostID = h.rt.vote.PostID
                           /\ f.vote.CommentID = h.rt.vote.CommentID
                   THEN [h.rt EXCEPT !.stage = "removing"]
                   ELSE NoRT]

\* the call in progress returns r
Returned(h, r) ==
    IF ~h.on THEN h
    ELSE [h EXCEPT
            !.req = NoReq,
            !.rt = IF h.rt.stage = "casting" /\ r = "ok"
                   THEN [h.rt EXCEPT !.stage = "cast"]
                   ELSE IF h.rt.stage = "removing"
                   THEN [h.rt EXCEPT !.stage = "done", !.result = r]
                   ELSE NoRT,
            !.sc = IF /\ h.sc >= 0
                      /\ h.sc < Len(Scenario)
                      /\ r = "ok"
                      /\ h.req = Scenario[h.sc + 1]
                   THEN h.sc + 1 ELSE -1]

(* ------------------------------- Init ---------------------------------- *)
\* the rows every run starts from: a subreddit created by user 1, and a
\* post of user 1 in it with one top-level comment
FirstUsers == [i \in Users |-> [Username |-> i, Email |-> i]]
FirstSubreddit == [Name |-> 1, CreatedBy |-> 1]
FirstPost == [Karma |-> 0, Content |-> "c0", AuthorID |-> 1,
              SubredditID |-> 1]
FirstComment == [Karma |-> 0, Content |-> "c0", AuthorID |-> 1, PostID |-> 1,
                 ParentID |-> NULL, CreatedAt |-> 0]

\* the database of the DatabaseManager as InitDatabase and the first calls
\* leave it: the users 1..NumUsers with karma 0, one subreddit with every
\* user a member, in it the posts of TargetIDs written by user 1 and on
\* them the comments of TargetIDs written by the last user, no vote and no
\* direct message
DmStart ==
    [votes |-> {},
     users |-> [u \in Users |-> [Username |-> u, Karma |-> 0]],
     subreddits |-> <<[Name |-> 1]>>,
     members |-> {<<1, u>> : u \in Users},
     posts |-> [i \in TargetIDs |->
                   [AuthorID |-> 1, SubredditID |-> 1, CreatedAt |-> 0]],
     comments |-> [i \in TargetIDs |->
                      [AuthorID |-> NumUsers, PostID |-> i,
                       ParentID |-> NULL]],
     messages |-> <<>>,
     seq |-> [users |-> NumUsers, subreddits |-> 1, posts |-> MaxTargetID,
              comments |-> MaxTargetID, messages |-> 0]]

\* DatabaseManager.mu (sync.RWMutex) held by nobody
DmFree == [writer |-> NULL, readers |-> {}]

\* no list call has returned yet
NoListing == [op |-> "none", arg |-> NULL, limit |-> 0, offset |-> 0,
              rows |-> <<>>]

\* the posts in ps with one top-level comment on post 1, nobody has voted,
\* no message sent, no call running, the observer in state h
Start(ps, h) ==
    /\ votes = <<>>
    /\ nextVoteID = 1
    /\ posts = [i \in ps |-> FirstPost]
    /\ comments = (1 :> FirstComment)
    /\ nextCommentID = 2
    /\ messages = <<>>
    /\ nextMessageID = 1
    /\ DBMu = NULL
    /\ pc = [p \in Procs |-> "idle"]
    /\ frame = [p \in Procs |-> EmptyFrame]
    /\ response = Return("none", "none")
    /\ ops = 0
    /\ hist = h
    /\ now = 0
    /\ listing = NoListing
    /\ dm_db = DmStart
    /\ dm_mu = DmFree
    /\ users = FirstUsers
    /\ subreddits = (1 :> FirstSubreddit)
    /\ nextUserID = NumUsers + 1
    /\ nextSubredditID = 2
    /\ nextPostID = Cardinality(ps) + 1

\* one post with one top-level comment, nobody has voted, no call running
Init == Start({1}, NoHist)

(* ------------------------------ the lock ------------------------------- *)
\* positions of a goroutine: the repository call it is about to make, or
\* is making when it holds DBMu
RepoCalls == {"CastVote_get", "CastVote_create",
              "ChangeVote_get", "ChangeVote_update",
              "RemoveVote_get", "RemoveVote_delete",
              "UpdateKarma_get", "UpdateKarma_update",
              "GetVote_get", "GetPostByID_get", "GetCommentByID_get",
              "DeletePost_exec", "DeleteComment_exec", "DeleteMessage_exec",
              "DeleteUser_exec", "DeleteSubreddit_exec",
              "CreatePost_user", "CreatePost_subreddit", "CreatePost_create",
              "RegisterUser_name", "RegisterUser_create",
              "UpdateUserProfile_get", "UpdateUserProfile_update",
              "CreateSubreddit_name", "CreateSubreddit_create",
              "UpdateSubreddit_get", "UpdateSubreddit_name",
              "UpdateSubreddit_update",
              "AddComment_user", "AddComment_post", "AddComment_create",
              "ReplyToComment_user", "ReplyToComment_parent",
              "ReplyToComment_create",
              "UpdateComment_get", "UpdateComment_update",
              "UpdatePost_get", "UpdatePost_update",
              "SendMessage_sender", "SendMessage_receiver",
              "SendMessage_create",
              "ReplyToMessage_sender", "ReplyToMessage_parent",
              "ReplyToMessage_create",
              "UpdateMessage_get", "UpdateMessage_update",
              "GetCommentsByPost_post", "GetCommentsByPost_query",
              "GetReplies_parent", "GetReplies_query",
              "GetMessagesForUser_query",
              "MessageGetReplies_parent", "MessageGetReplies_query"}

Idle(p) == pc[p] = "idle"

\* a Lock() that does not wait for the mutex
Free_Always(mu) == TRUE

\* sync.Mutex: Lock() returns only when no goroutine holds the mutex
Free(mu) == mu = NULL

\* database.DBMu.Lock() at the head of every repository method: the
\* goroutine is inside the method (locked) until the method returns
Lock(p) ==
    /\ pc[p] \in RepoCalls
    /\ Free(DBMu)
    /\ DBMu' = p
    /\ frame' = [frame EXCEPT ![p].locked = TRUE]
    /\ UNCHANGED <<votes, nextVoteID, posts, comments, pc, response,
                   ops, threads, hist>>

\* a repository method body runs with the mutex held and ends by the
\* deferred database.DBMu.Unlock()
InRepo(p, at) == pc[p] = at /\ DBMu = p

\* Unlock that a return with an error skips
Unlock_SkippedOnError(p, err) == IF err THEN p ELSE NULL

\* "defer database.DBMu.Unlock()": the holder of the mutex once the method
\* of goroutine p has returned, with an error or without
Unlock(p, err) == NULL

\* method op returns r to the handler and the goroutine ends
Respond(p, op, r) ==
    /\ pc' = [pc EXCEPT ![p] = "idle"]
    /\ frame' = [frame EXCEPT ![p] = EmptyFrame]
    /\ response' = Return(op, r)
    /\ hist' = Logged(Returned(IF pc[p] = "idle"
                               THEN Called(hist,
                                           [EmptyFrame EXCEPT !.op = op])
                               ELSE hist, r),
                      p, op, IF hist.logging /\ pc[p] # "idle"
                             THEN hist.calls[p] ELSE NoVote, r)

\* the running method returns r
Finish(p, r) == Respond(p, frame[p].op, r)

\* the goroutine moves to position at with locals f
Move(p, at, f) ==
    /\ pc' = [pc EXCEPT ![p] = at]
    /\ frame' = [frame EXCEPT ![p] = f]
    /\ UNCHANGED response
    /\ hist' = IF pc[p] = "idle" THEN Noted(Called(hist, f), p, f)
               ELSE hist

\* the call goes on to its next repository call with locals f: the method
\* it was in, if any, has returned
Goto(p, at, f) == Move(p, at, [f EXCEPT !.locked = FALSE])

\* the method has validated its input and calls its first repository method
\* with locals f: the goroutine is now in front of the Lock() of that method
\* and waits there for as long as another goroutine holds the mutex
Enter(p, at, f) ==
    /\ UNCHANGED DBMu
    /\ Move(p, at, [f EXCEPT !.locked = FALSE])

\* a request arrives and its handler goroutine calls a service method; the
\* goroutines are interchangeable, so a request takes the first free one.
\* Where the observer is on, the caller waits for the call before it to
\* return.
Ready(p) ==
    /\ Idle(p)
    /\ \A q \in Procs : q < p => ~Idle(q)
    /\ hist.on => \A q \in Procs : Idle(q)
    /\ ops < MaxOps

\* the request is counted
Begin(p) ==
    /\ Ready(p)
    /\ ops' = ops + 1

(* ------------------------------ CastVote ------------------------------- *)
VoteInputs == [UserID : Users, PostID : {NULL} \cup TargetIDs,
               CommentID : {NULL} \cup TargetIDs, VoteType : VoteTypes]

AsVote(in) == [NoVote EXCEPT !.UserID = in.UserID, !.PostID = in.PostID,
               !.CommentID = in.CommentID, !.VoteType = in.VoteType]

\* entry and target validation
CastVoteCall(p, in) ==
    /\ Begin(p)
    /\ LET f == [EmptyFrame EXCEPT !.op = "CastVote", !.vote = AsVote(in)]
       IN IF ~ValidTarget(in)
          THEN Respond(p, f.op, "invalid_target") /\ UNCHANGED DBMu
          ELSE Enter(p, "CastVote_get", f)
    /\ UNCHANGED <<votes, nextVoteID, posts, comments, threads>>

\* "Check if user has already voted on the target"
CastVoteGet(p) ==
    /\ InRepo(p, "CastVote_get")
    /\ LET v == frame[p].vote
           e == LookupVote(v.UserID, v.PostID, v.CommentID)
       IN IF CastVoteCheck(e) = "conflict"
          THEN Finish(p, "conflict")
          ELSE Goto(p, "CastVote_create", [frame[p] EXCEPT !.existingVote = e])
    /\ DBMu' = NULL
    /\ UNCHANGED <<votes, nextVoteID, posts, comments, ops, threads>>

\* target of the karma update of CastVote and ChangeVote
TargetOf(v) == IF v.PostID # NULL THEN [type |-> "post", id |-> v.PostID]
               ELSE [type |-> "comment", id |-> v.CommentID]

\* VoteRepo.CreateVote, then the delta and the call of UpdateKarma
CastVoteCreate(p) ==
    /\ InRepo(p, "CastVote_create")
    /\ LET v == frame[p].vote
           t == TargetOf(v)
       IN IF CanCreateVote(v)
          THEN /\ votes' = votes @@ (nextVoteID :>
                        [UserID |-> v.UserID, PostID |-> v.PostID,
                         CommentID |-> v.CommentID, VoteType |-> v.VoteType])
               /\ nextVoteID' = nextVoteID + 1
               /\ Goto(p, "UpdateKarma_get",
                       [Live(frame[p]) EXCEPT
                            !.vote.ID = nextVoteID,
                            !.vote.VoteType = v.VoteType,
                            !.delta = CastDelta(v.VoteType),
                            !.targetType = t.type,
                            !.targetID = t.id])
          ELSE /\ Finish(p, "db_error")
               /\ UNCHANGED <<votes, nextVoteID>>
    /\ DBMu' = NULL
    /\ UNCHANGED <<posts, comments, ops, threads>>

(* ----------------------------- UpdateKarma ----------------------------- *)
\* GetPostByID / GetCommentByID, then "Karma += delta" on the loaded copy
UpdateKarmaGet(p) ==
    /\ InRepo(p, "UpdateKarma_get")
    /\ LET f == frame[p]
           tbl == IF f.targetType = "post" THEN posts ELSE comments
       IN IF f.targetID \in DOMAIN tbl
          THEN Goto(p, "UpdateKarma_update",
                    [f EXCEPT !.target =
                        [ID |-> f.targetID,
                         Karma |-> tbl[f.targetID].Karma + f.delta,
                         Content |-> tbl[f.targetID].Content]])
          ELSE Finish(p, "target_not_found")
    /\ DBMu' = NULL
    /\ UNCHANGED <<votes, nextVoteID, posts, comments, ops, threads>>

\* PostRepo.UpdatePost / CommentRepo.UpdateComment of the loaded copy
UpdateKarmaUpdate(p) ==
    /\ InRepo(p, "UpdateKarma_update")
    /\ LET f == frame[p]
       IN IF f.targetType = "post"
          THEN /\ IF f.target.ID \in DOMAIN posts
                  THEN /\ posts' = [posts EXCEPT ![f.target.ID] =
                                        UpdatePostRow(@, f.target)]
                       /\ Finish(p, "ok")
                  ELSE /\ Finish(p, "db_error")
                       /\ UNCHANGED posts
               /\ UNCHANGED comments
          ELSE /\ IF f.target.ID \in DOMAIN comments
                  THEN /\ comments' = [comments EXCEPT ![f.target.ID] =
                                        UpdateCommentRow(@, f.target)]
                       /\ Finish(p, "ok")
                  ELSE /\ Finish(p, "db_error")
                       /\ UNCHANGED comments
               /\ UNCHANGED posts
    /\ DBMu' = NULL
    /\ UNCHANGED <<votes, nextVoteID, ops, threads>>

(* ----------------------------- ChangeVote ------------------------------ *)
\* entry: vote type validation, then target validation
ChangeVoteCall(p, in) ==
    /\ Begin(p)
    /\ LET f == [EmptyFrame EXCEPT !.op = "ChangeVote", !.vote = AsVote(in)]
       IN IF in.VoteType # "upvote" /\ in.VoteType # "downvote"
          THEN Respond(p, f.op, "invalid_type") /\ UNCHANGED DBMu
          ELSE IF ~ValidTarget(in)
          THEN Respond(p, f.op, "invalid_target") /\ UNCHANGED DBMu
          ELSE Enter(p, "ChangeVote_get", f)
    /\ UNCHANGED <<votes, nextVoteID, posts, comments, threads>>

\* "Retrieve existing vote" and the same-type check
ChangeVoteGet(p) ==
    /\ InRepo(p, "ChangeVote_get")
    /\ LET v == frame[p].vote
           e == LookupVote(v.UserID, v.PostID, v.CommentID)
           c == ChangeVoteCheck(e, v.VoteType)
       IN IF c # "proceed"
          THEN Finish(p, c)
          ELSE Goto(p, "ChangeVote_update",
                    [frame[p] EXCEPT !.vote.UserID = NULL,
                                     !.existingVote.ID = e.ID,
                                     !.existingVote.VoteType = v.VoteType])
    /\ DBMu' = NULL
    /\ UNCHANGED <<votes, nextVoteID, posts, comments, ops, threads>>

\* VoteRepo.UpdateVote (UPDATE ... WHERE id RETURNING updated_at), then the
\* delta and the call of UpdateKarma
ChangeVoteUpdate(p) ==
    /\ InRepo(p, "ChangeVote_update")
    /\ LET v == frame[p].vote
           e == frame[p].existingVote
           t == TargetOf(v)
       IN IF e.ID \in DOMAIN votes /\ CheckVoteType(e.VoteType)
          THEN /\ votes' = [votes EXCEPT ![e.ID].VoteType = e.VoteType]
               /\ Goto(p, "UpdateKarma_get",
                       [Live(frame[p]) EXCEPT
                            !.vote.VoteType = v.VoteType,
                            !.existingVote.ID = e.ID,
                            !.delta = ChangeDelta(v.VoteType),
                            !.targetType = t.type,
                            !.targetID = t.id])
          ELSE /\ Finish(p, "db_error")
               /\ UNCHANGED votes
    /\ DBMu' = NULL
    /\ UNCHANGED <<nextVoteID, posts, comments, ops, threads>>

(* ----------------------------- RemoveVote ------------------------------ *)
RemoveInputs == [UserID : Users, PostID : {NULL} \cup TargetIDs,
                 CommentID : {NULL} \cup TargetIDs]

\* entry: RemoveVote(userID, postID, commentID) validates nothing
RemoveVoteCall(p, in) ==
    /\ Begin(p)
    /\ Enter(p, "RemoveVote_get",
            [EmptyFrame EXCEPT !.op = "RemoveVote",
                               !.vote = [NoVote EXCEPT
                                           !.UserID = in.UserID,
                                           !.PostID = in.PostID,
                                           !.CommentID = in.CommentID]])
    /\ UNCHANGED <<votes, nextVoteID, posts, comments, threads>>

\* "Retrieve existing vote" and the delta from its type
RemoveVoteGet(p) ==
    /\ InRepo(p, "RemoveVote_get")
    /\ LET v == frame[p].vote
           e == LookupVote(v.UserID, v.PostID, v.CommentID)
       IN IF RemoveVoteCheck(e) = "not_found"
          THEN Finish(p, "not_found")
          ELSE Goto(p, "RemoveVote_delete",
                    [Live(frame[p]) EXCEPT
                         !.existingVote.ID = e.ID,
                         !.existingVote.PostID = e.PostID,
                         !.existingVote.CommentID = e.CommentID,
                         !.delta = RemoveDelta(e.VoteType)])
    /\ DBMu' = Unlock(p, LET v == frame[p].vote
                         IN LookupVote(v.UserID, v.PostID,
                                       v.CommentID).ID = NULL)
    /\ UNCHANGED <<votes, nextVoteID, posts, comments, ops, threads>>

\* DeleteVote without the check of the rows affected
RowsAffected_One(id) == 1

\* result.RowsAffected() of "DELETE FROM votes WHERE id = $1"
RowsAffected(id) == IF id \in DOMAIN votes THEN 1 ELSE 0

\* VoteRepo.DeleteVote (error when no row was affected), then the call of
\* UpdateKarma on the target of the vote that was read
RemoveVoteDelete(p) ==
    /\ InRepo(p, "RemoveVote_delete")
    /\ LET e == frame[p].existingVote
       IN IF RowsAffected(e.ID) = 0
          THEN /\ Finish(p, "db_error")
               /\ UNCHANGED votes
          ELSE /\ votes' = [id \in DOMAIN votes \ {e.ID} |-> votes[id]]
               /\ IF e.PostID # NULL
                  THEN Goto(p, "UpdateKarma_get",
                            [Live(frame[p]) EXCEPT
                                 !.existingVote.ID = e.ID,
                                 !.delta = frame[p].delta,
                                 !.targetType = "post",
                                 !.targetID = e.PostID])
                  ELSE IF e.CommentID # NULL
                  THEN Goto(p, "UpdateKarma_get",
                            [Live(frame[p]) EXCEPT
                                 !.existingVote.ID = e.ID,
                                 !.delta = frame[p].delta,
                                 !.targetType = "comment",
                                 !.targetID = e.CommentID])
                  ELSE Finish(p, "invalid_target")
    /\ DBMu' = Unlock(p, RowsAffected(frame[p].existingVote.ID) = 0)
    /\ UNCHANGED <<nextVoteID, posts, comments, ops, threads>>

(* ------------------------------ readers -------------------------------- *)
\* voteService.GetVote: rejects a request naming both a post and a comment
GetVoteCall(p, in) ==
    /\ Begin(p)
    /\ LET f == [EmptyFrame EXCEPT !.op = "GetVote",
                                   !.vote = [NoVote EXCEPT
                                               !.UserID = in.UserID,
                                               !.PostID = in.PostID,
                                               !.CommentID = in.CommentID]]
       IN IF in.PostID # NULL /\ in.CommentID # NULL
          THEN Respond(p, f.op, "invalid_target") /\ UNCHANGED DBMu
          ELSE Enter(p, "GetVote_get", f)
    /\ UNCHANGED <<votes, nextVoteID, posts, comments, threads>>

GetVoteGet(p) ==
    /\ InRepo(p, "GetVote_get")
    /\ LET v == frame[p].vote
           e == LookupVote(v.UserID, v.PostID, v.CommentID)
       IN Finish(p, IF e.ID = NULL THEN "not_found" ELSE "ok")
    /\ DBMu' = NULL
    /\ UNCHANGED <<votes, nextVoteID, posts, comments, ops, threads>>

\* postService.GetPostByID / commentService.GetCommentByID
GetTargetCall(p, type, id) ==
    /\ Begin(p)
    /\ Enter(p, IF type = "post" THEN "GetPostByID_get"
               ELSE "GetCommentByID_get",
            [EmptyFrame EXCEPT !.op = IF type = "post" THEN "GetPostByID"
                                      ELSE "GetCommentByID",
                               !.targetType = type, !.targetID = id])
    /\ UNCHANGED <<votes, nextVoteID, posts, comments, threads>>

GetPostByIDGet(p) ==
    /\ InRepo(p, "GetPostByID_get")
    /\ Finish(p, IF frame[p].targetID \in DOMAIN posts THEN "ok"
                 ELSE "target_not_found")
    /\ DBMu' = NULL
    /\ UNCHANGED <<votes, nextVoteID, posts, comments, ops, threads>>

GetCommentByIDGet(p) ==
    /\ InRepo(p, "GetCommentByID_get")
    /\ Finish(p, IF frame[p].targetID \in DOMAIN comments THEN "ok"
                 ELSE "target_not_found")
    /\ DBMu' = NULL
    /\ UNCHANGED <<votes, nextVoteID, posts, comments, ops, threads>>

(* ------------------------------ deletes -------------------------------- *)
\* comments removed by ON DELETE CASCADE once the comments of S are removed
RECURSIVE CascadeComments(_)
CascadeComments(S) ==
    LET T == S \cup {c \in DOMAIN comments : comments[c].ParentID \in S}
    IN IF T = S THEN S ELSE CascadeComments(T)

\* messages removed by ON DELETE CASCADE once the messages of S are removed
RECURSIVE CascadeMessages(_)
CascadeMessages(S) ==
    LET T == S \cup {m \in DOMAIN messages : messages[m].ParentID \in S}
    IN IF T = S THEN S ELSE CascadeMessages(T)

\* the rows a DELETE of the users us, the subreddits ss, the posts ps, the
\* comments cs and the messages ms removes: the FOREIGN KEY clauses of the
\* schema are all ON DELETE CASCADE
Cascade(us, ss, ps, cs, ms) ==
    LET S == ss \cup {i \in DOMAIN subreddits : subreddits[i].CreatedBy \in us}
        P == ps \cup {i \in DOMAIN posts : \/ posts[i].AuthorID \in us
                                           \/ posts[i].SubredditID \in S}
        C == CascadeComments(cs \cup {c \in DOMAIN comments :
                                          \/ comments[c].AuthorID \in us
                                          \/ comments[c].PostID \in P})
        M == CascadeMessages(ms \cup {m \in DOMAIN messages :
                                          \/ messages[m].SenderID \in us
                                          \/ messages[m].ReceiverID \in us})
    IN [users |-> us, subreddits |-> S, posts |-> P, comments |-> C,
        messages |-> M,
        votes |-> {v \in DOMAIN votes : \/ votes[v].UserID \in us
                                        \/ votes[v].PostID \in P
                                        \/ votes[v].CommentID \in C}]

\* the table without the rows of gone
Without(table, gone) == [i \in DOMAIN table \ gone |-> table[i]]

\* the tables once the rows of d are removed
DeleteRows(d) ==
    /\ users' = Without(users, d.users)
    /\ subreddits' = Without(subreddits, d.subreddits)
    /\ posts' = Without(posts, d.posts)
    /\ comments' = Without(comments, d.comments)
    /\ messages' = Without(messages, d.messages)
    /\ votes' = Without(votes, d.votes)

\* the service method of a delete: it calls the repository method at once
DeleteCall(p, op, at, id) ==
    /\ Begin(p)
    /\ Enter(p, at, [EmptyFrame EXCEPT !.op = op, !.targetID = id])
    /\ UNCHANGED <<votes, nextVoteID, posts, comments, threads>>

\* the repository method of a delete: "DELETE FROM ... WHERE id = $1", an
\* error when no row was affected; d is what the statement removes
DeleteExec(p, at, found, d) ==
    /\ InRepo(p, at)
    /\ IF found
       THEN /\ DeleteRows(d)
            /\ Finish(p, "ok")
       ELSE /\ Finish(p, "target_not_found")
            /\ UNCHANGED <<users, subreddits, posts, comments, messages,
                           votes>>
    /\ DBMu' = NULL
    /\ UNCHANGED <<nextVoteID, nextCommentID, nextMessageID, nextPostID,
                   nextUserID, nextSubredditID, ops,
                   now, listing, manager>>

\* postService.DeletePost
DeletePostCall(p, id) == DeleteCall(p, "DeletePost", "DeletePost_exec", id)

\* postRepository.DeletePost
DeletePostExec(p) ==
    DeleteExec(p, "DeletePost_exec", frame[p].targetID \in DOMAIN posts,
               Cascade({}, {}, {frame[p].targetID}, {}, {}))

\* commentService.DeleteComment
DeleteCommentCall(p, id) ==
    DeleteCall(p, "DeleteComment", "DeleteComment_exec", id)

\* commentRepository.DeleteComment
DeleteCommentExec(p) ==
    DeleteExec(p, "DeleteComment_exec", frame[p].targetID \in DOMAIN comments,
               Cascade({}, {}, {}, {frame[p].targetID}, {}))

\* messageService.DeleteMessage
DeleteMessageCall(p, id) ==
    DeleteCall(p, "DeleteMessage", "DeleteMessage_exec", id)

\* messageRepository.DeleteMessage
DeleteMessageExec(p) ==
    DeleteExec(p, "DeleteMessage_exec", frame[p].targetID \in DOMAIN messages,
               Cascade({}, {}, {}, {}, {frame[p].targetID}))

\* userService.DeleteUser
DeleteUserCall(p, id) == DeleteCall(p, "DeleteUser", "DeleteUser_exec", id)

\* userRepository.DeleteUser
DeleteUserExec(p) ==
    DeleteExec(p, "DeleteUser_exec", frame[p].targetID \in DOMAIN users,
               Cascade({frame[p].targetID}, {}, {}, {}, {}))

\* subredditService.DeleteSubreddit
DeleteSubredditCall(p, id) ==
    DeleteCall(p, "DeleteSubreddit", "DeleteSubreddit_exec", id)

\* subredditRepository.DeleteSubreddit
DeleteSubredditExec(p) ==
    DeleteExec(p, "DeleteSubreddit_exec",
               frame[p].targetID \in DOMAIN subreddits,
               Cascade({}, {frame[p].targetID}, {}, {}, {}))

(* ------------------------------- Next ---------------------------------- *)
Next ==
    \E p \in Procs :
        \/ /\ Ready(p)
           /\ \E in \in VoteInputs : CastVoteCall(p, in)
        \/ /\ Ready(p)
           /\ \E in \in VoteInputs : ChangeVoteCall(p, in)
        \/ /\ Ready(p)
           /\ \E in \in RemoveInputs : RemoveVoteCall(p, in)
        \/ /\ Ready(p)
           /\ \E in \in RemoveInputs : GetVoteCall(p, in)
        \/ /\ Ready(p)
           /\ \E type \in {"post", "comment"}, id \in TargetIDs :
                  GetTargetCall(p, type, id)
        \/ /\ Ready(p)
           /\ \E id \in TargetIDs : DeletePostCall(p, id)
        \/ Lock(p)
        \/ CastVoteGet(p)
        \/ CastVoteCreate(p)
        \/ ChangeVoteGet(p)
        \/ ChangeVoteUpdate(p)
        \/ RemoveVoteGet(p)
        \/ RemoveVoteDelete(p)
        \/ UpdateKarmaGet(p)
        \/ UpdateKarmaUpdate(p)
        \/ GetVoteGet(p)
        \/ GetPostByIDGet(p)
        \/ GetCommentByIDGet(p)
        \/ DeletePostExec(p)

Spec == Init /\ [][Next]_vars

\* the same calls made one after the other, with the observer on
InitSeq == Start({1}, StartHist)
SpecSeq == InitSeq /\ [][Next]_vars

\* the calls that cast and remove the votes on posts: the repository
\* methods a call goes through are the same for a post and for a comment
NextLock ==
    \E p \in Procs :
        \/ /\ Ready(p)
           /\ \E in \in {i \in VoteInputs : i.CommentID = NULL} :
                  CastVoteCall(p, in)
        \/ /\ Ready(p)
           /\ \E in \in {i \in RemoveInputs : i.CommentID = NULL} :
                  RemoveVoteCall(p, in)
        \/ Lock(p)
        \/ CastVoteGet(p)
        \/ CastVoteCreate(p)
        \/ RemoveVoteGet(p)
        \/ RemoveVoteDelete(p)
        \/ UpdateKarmaGet(p)
        \/ UpdateKarmaUpdate(p)

\* the body of the repository method goroutine p is in
Body(p) ==
    \/ CastVoteGet(p)
    \/ CastVoteCreate(p)
    \/ RemoveVoteGet(p)
    \/ RemoveVoteDelete(p)
    \/ UpdateKarmaGet(p)
    \/ UpdateKarmaUpdate(p)

\* a goroutine that holds the mutex keeps running, and sync.Mutex hands the
\* mutex to a goroutine that keeps waiting for it (its starvation mode), so
\* no waiter is passed over for ever
Fairness ==
    \A p \in Procs : WF_vars(Body(p)) /\ SF_vars(Lock(p))

SpecLock == Init /\ [][NextLock]_vars /\ Fairness

(* ------------------------- comments and messages ----------------------- *)
\* the posts of a run of the comment and message operations
ThreadPosts == {1, 2}

\* post ids a comment request may name; the last one does not exist
ThreadPostIDs == {1, 2, 3}

\* content strings a request may carry
Contents == {"", "c1"}

\* author ids a request may carry: none, the last user (who wrote none of
\* the rows the store starts with), no user
Authors == {NULL, NumUsers, NumUsers + 1}

\* UserRepo.GetUserByID finds the user
GetUserByID(id) == id \in DOMAIN users

\* SubredditRepo.GetSubredditByID finds the subreddit
GetSubredditByID(id) == id \in DOMAIN subreddits

\* INSERT INTO posts succeeds: the FOREIGN KEY clauses of the table
CanCreatePost(post) ==
    /\ post.AuthorID \in DOMAIN users
    /\ post.SubredditID \in DOMAIN subreddits

\* the row INSERT INTO posts writes for the struct post
NewPostRow(post) == [Karma |-> 0, Content |-> post.Content,
                     AuthorID |-> post.AuthorID,
                     SubredditID |-> post.SubredditID]

\* PostHandler.CreatePost and the entry of postService.CreatePost: the body
\* is decoded into the struct, the subreddit id comes from the URL
CreatePostCall(p, subredditID, body) ==
    /\ Begin(p)
    /\ LET post == [body EXCEPT !.SubredditID = subredditID]
       IN IF body.AuthorID = NULL
          THEN Respond(p, "CreatePost", "bad_request") /\ UNCHANGED DBMu
          ELSE IF post.Title = "" \/ post.Content = ""
          THEN Respond(p, "CreatePost", "content_required")
               /\ UNCHANGED DBMu
          ELSE Enter(p, "CreatePost_user",
                     [EmptyFrame EXCEPT !.op = "CreatePost", !.post = post])
    /\ UNCHANGED <<votes, nextVoteID, posts, comments, threads>>

\* "Check if author exists"
CreatePostUser(p) ==
    /\ InRepo(p, "CreatePost_user")
    /\ IF GetUserByID(frame[p].post.AuthorID)
       THEN Goto(p, "CreatePost_subreddit", frame[p])
       ELSE Finish(p, "author_not_found")
    /\ DBMu' = NULL
    /\ UNCHANGED <<votes, nextVoteID, posts, comments, ops, threads>>

\* "Check if subreddit exists"
CreatePostSubreddit(p) ==
    /\ InRepo(p, "CreatePost_subreddit")
    /\ IF GetSubredditByID(frame[p].post.SubredditID)
       THEN Goto(p, "CreatePost_create", frame[p])
       ELSE Finish(p, "subreddit_not_found")
    /\ DBMu' = NULL
    /\ UNCHANGED <<votes, nextVoteID, posts, comments, ops, threads>>

\* "Create the post via the repository": INSERT INTO posts
CreatePostCreate(p) ==
    /\ InRepo(p, "CreatePost_create")
    /\ IF CanCreatePost(frame[p].post)
       THEN /\ posts' = posts @@ (nextPostID :> NewPostRow(frame[p].post))
            /\ nextPostID' = nextPostID + 1
            /\ Finish(p, "ok")
       ELSE /\ Finish(p, "db_error")
            /\ UNCHANGED <<posts, nextPostID>>
    /\ DBMu' = NULL
    /\ UNCHANGED <<votes, nextVoteID, comments, ops, nextCommentID, messages,
                   nextMessageID, now, listing, manager, users, subreddits,
                   nextUserID, nextSubredditID>>

(* ------------------------- users and subreddits ------------------------ *)
\* what the steps of the user and subreddit methods leave alone
others == <<votes, nextVoteID, posts, comments, nextCommentID, messages,
            nextMessageID, now, listing, manager, nextPostID>>

\* UserRepo.GetUserByUsername finds a user
GetUserByUsername(name) == \E u \in DOMAIN users : users[u].Username = name

\* the UNIQUE clauses of the users table allow the row id to hold the
\* username and the e-mail address of user
UniqueUser(id, user) ==
    \A u \in DOMAIN users \ {id} : /\ users[u].Username # user.Username
                                   /\ users[u].Email # user.Email

\* UserHandler.Register and the entry of userService.RegisterUser
RegisterUserCall(p, body) ==
    /\ Begin(p)
    /\ IF body.Username = NULL \/ body.Email = NULL \/ body.Password = ""
       THEN Respond(p, "RegisterUser", "fields_required") /\ UNCHANGED DBMu
       ELSE Enter(p, "RegisterUser_name",
                  [EmptyFrame EXCEPT !.op = "RegisterUser", !.user = body])
    /\ UNCHANGED <<votes, nextVoteID, posts, comments, threads>>

\* hashPassword: the error of bcrypt.GenerateFromPassword, which is
\* ErrPasswordTooLong for a password of more than 72 bytes
hashPassword(password) ==
    IF Len(password) > 72 THEN "password_too_long" ELSE "ok"

\* "Check if username already exists" and "Hash the password": the error
\* of hashPassword is returned before the user is created; "$2a$" stands
\* for the bcrypt hash, which no statement of the model reads
RegisterUserName(p) ==
    /\ InRepo(p, "RegisterUser_name")
    /\ LET user == frame[p].user
       IN IF GetUserByUsername(user.Username)
          THEN Finish(p, "username_taken")
          ELSE IF hashPassword(user.Password) # "ok"
          THEN Finish(p, hashPassword(user.Password))
          ELSE Goto(p, "RegisterUser_create",
                    [frame[p] EXCEPT !.user.Password = "$2a$"])
    /\ DBMu' = NULL
    /\ UNCHANGED <<votes, nextVoteID, posts, comments, ops, threads>>

\* "Create the user in the repository": INSERT INTO users
RegisterUserCreate(p) ==
    /\ InRepo(p, "RegisterUser_create")
    /\ IF UniqueUser(NULL, frame[p].user)
       THEN /\ users' = users @@
                            (nextUserID :>
                                 [Username |-> frame[p].user.Username,
                                  Email |-> frame[p].user.Email])
            /\ nextUserID' = nextUserID + 1
            /\ Finish(p, "ok")
       ELSE /\ Finish(p, "db_error")
            /\ UNCHANGED <<users, nextUserID>>
    /\ DBMu' = NULL
    /\ UNCHANGED <<others, ops, subreddits, nextSubredditID>>

\* UserHandler.UpdateProfile and the entry of userService.UpdateUserProfile:
\* the user id comes from the URL
UpdateUserProfileCall(p, id, body) ==
    /\ Begin(p)
    /\ IF body.Username = NULL \/ body.Email = NULL
       THEN Respond(p, "UpdateUserProfile", "fields_required")
            /\ UNCHANGED DBMu
       ELSE Enter(p, "UpdateUserProfile_get",
                  [EmptyFrame EXCEPT !.op = "UpdateUserProfile",
                                     !.user = [body EXCEPT !.ID = id]])
    /\ UNCHANGED <<votes, nextVoteID, posts, comments, threads>>

\* "Retrieve existing user" and "If password is being updated, hash it":
\* the error of hashPassword is returned before the user is updated; the
\* username and the e-mail address of the request are put into the loaded
\* struct, and the hash of a password that is not empty
UpdateUserProfileGet(p) ==
    /\ InRepo(p, "UpdateUserProfile_get")
    /\ LET user == frame[p].user
       IN IF ~GetUserByID(user.ID)
          THEN Finish(p, "user_not_found")
          ELSE IF user.Password # "" /\ hashPassword(user.Password) # "ok"
          THEN Finish(p, hashPassword(user.Password))
          ELSE Goto(p, "UpdateUserProfile_update",
                    [frame[p] EXCEPT !.user.Password =
                        IF @ = "" THEN "" ELSE "$2a$"])
    /\ DBMu' = NULL
    /\ UNCHANGED <<votes, nextVoteID, posts, comments, ops, threads>>

\* UserRepo.UpdateUser: UPDATE users ... WHERE id = $4 RETURNING updated_at,
\* an error when no row is returned
UpdateUserProfileUpdate(p) ==
    /\ InRepo(p, "UpdateUserProfile_update")
    /\ LET user == frame[p].user
       IN IF user.ID \in DOMAIN users /\ UniqueUser(user.ID, user)
          THEN /\ users' = [users EXCEPT ![user.ID] =
                                [Username |-> user.Username,
                                 Email |-> user.Email]]
               /\ Finish(p, "ok")
          ELSE Finish(p, "db_error") /\ UNCHANGED users
    /\ DBMu' = NULL
    /\ UNCHANGED <<others, ops, subreddits, nextUserID, nextSubredditID>>

\* SubredditRepo.GetSubredditByName finds a subreddit
GetSubredditByName(name) ==
    \E i \in DOMAIN subreddits : subreddits[i].Name = name

\* the UNIQUE clause of the subreddits table allows the row id to hold the
\* name
UniqueSubreddit(id, name) ==
    \A i \in DOMAIN subreddits \ {id} : subreddits[i].Name # name

\* SubredditHandler.CreateSubreddit and the entry of
\* subredditService.CreateSubreddit
CreateSubredditCall(p, body) ==
    /\ Begin(p)
    /\ IF body.CreatedBy = NULL
       THEN Respond(p, "CreateSubreddit", "bad_request") /\ UNCHANGED DBMu
       ELSE IF body.Name = NULL
       THEN Respond(p, "CreateSubreddit", "name_required")
            /\ UNCHANGED DBMu
       ELSE Enter(p, "CreateSubreddit_name",
                  [EmptyFrame EXCEPT !.op = "CreateSubreddit",
                                     !.subreddit = body])
    /\ UNCHANGED <<votes, nextVoteID, posts, comments, threads>>

\* "Check if subreddit name already exists"
CreateSubredditName(p) ==
    /\ InRepo(p, "CreateSubreddit_name")
    /\ IF GetSubredditByName(frame[p].subreddit.Name)
       THEN Finish(p, "name_taken")
       ELSE Goto(p, "CreateSubreddit_create", frame[p])
    /\ DBMu' = NULL
    /\ UNCHANGED <<votes, nextVoteID, posts, comments, ops, threads>>

\* "Create the subreddit via the repository": INSERT INTO subreddits, with
\* the FOREIGN KEY clause of created_by
CreateSubredditCreate(p) ==
    /\ InRepo(p, "CreateSubreddit_create")
    /\ LET subreddit == frame[p].subreddit
       IN IF /\ UniqueSubreddit(NULL, subreddit.Name)
             /\ subreddit.CreatedBy \in DOMAIN users
          THEN /\ subreddits' = subreddits @@
                                    (nextSubredditID :>
                                         [Name |-> subreddit.Name,
                                          CreatedBy |-> subreddit.CreatedBy])
               /\ nextSubredditID' = nextSubredditID + 1
               /\ Finish(p, "ok")
          ELSE /\ Finish(p, "db_error")
               /\ UNCHANGED <<subreddits, nextSubredditID>>
    /\ DBMu' = NULL
    /\ UNCHANGED <<others, ops, users, nextUserID>>

\* SubredditHandler.UpdateSubreddit and the entry of
\* subredditService.UpdateSubreddit: the subreddit id comes from the URL
UpdateSubredditCall(p, id, body) ==
    /\ Begin(p)
    /\ IF body.Name = NULL
       THEN Respond(p, "UpdateSubreddit", "name_required")
            /\ UNCHANGED DBMu
       ELSE Enter(p, "UpdateSubreddit_get",
                  [EmptyFrame EXCEPT !.op = "UpdateSubreddit",
                                     !.subreddit = [body EXCEPT !.ID = id]])
    /\ UNCHANGED <<votes, nextVoteID, posts, comments, threads>>

\* "Check if subreddit exists"; the name is looked up when it changes
UpdateSubredditGet(p) ==
    /\ InRepo(p, "UpdateSubreddit_get")
    /\ LET subreddit == frame[p].subreddit
       IN IF ~GetSubredditByID(subreddit.ID)
          THEN Finish(p, "subreddit_not_found")
          ELSE IF subreddits[subreddit.ID].Name # subreddit.Name
          THEN Goto(p, "UpdateSubreddit_name", frame[p])
          ELSE Goto(p, "UpdateSubreddit_update", frame[p])
    /\ DBMu' = NULL
    /\ UNCHANGED <<votes, nextVoteID, posts, comments, ops, threads>>

\* "check if the new name is already taken by another subreddit"
UpdateSubredditName(p) ==
    /\ InRepo(p, "UpdateSubreddit_name")
    /\ IF GetSubredditByName(frame[p].subreddit.Name)
       THEN Finish(p, "name_taken")
       ELSE Goto(p, "UpdateSubreddit_update", frame[p])
    /\ DBMu' = NULL
    /\ UNCHANGED <<votes, nextVoteID, posts, comments, ops, threads>>

\* SubredditRepo.UpdateSubreddit: UPDATE subreddits SET name, description
\* ... WHERE id = $3 RETURNING updated_at, an error when no row is returned
UpdateSubredditUpdate(p) ==
    /\ InRepo(p, "UpdateSubreddit_update")
    /\ LET subreddit == frame[p].subreddit
       IN IF /\ subreddit.ID \in DOMAIN subreddits
             /\ UniqueSubreddit(subreddit.ID, subreddit.Name)
          THEN /\ subreddits' = [subreddits EXCEPT
                                    ![subreddit.ID].Name = subreddit.Name]
               /\ Finish(p, "ok")
          ELSE Finish(p, "db_error") /\ UNCHANGED subreddits
    /\ DBMu' = NULL
    /\ UNCHANGED <<others, ops, users, nextUserID, nextSubredditID>>

\* INSERT INTO comments succeeds: the FOREIGN KEY clauses of the table.
\* SQLite checks them when the statement ends, so a parent_id equal to the
\* id the new row gets refers to a row that exists.
CanCreateComment(c) ==
    /\ c.AuthorID \in DOMAIN users
    /\ c.PostID \in DOMAIN posts
    /\ c.ParentID = NULL \/ c.ParentID \in DOMAIN comments \cup {nextCommentID}

\* the row INSERT INTO comments writes for the struct c
NewCommentRow(c) == [Karma |-> 0, Content |-> c.Content,
                     AuthorID |-> c.AuthorID, PostID |-> c.PostID,
                     ParentID |-> c.ParentID, CreatedAt |-> now]

\* INSERT INTO messages succeeds: the FOREIGN KEY clauses of the table,
\* checked when the statement ends
CanSendMessage(m) ==
    /\ m.SenderID \in DOMAIN users
    /\ m.ReceiverID \in DOMAIN users
    /\ m.ParentID = NULL \/ m.ParentID \in DOMAIN messages \cup {nextMessageID}

\* the row INSERT INTO messages writes for the struct m
NewMessageRow(m) == [SenderID |-> m.SenderID, ReceiverID |-> m.ReceiverID,
                     Content |-> m.Content, ParentID |-> m.ParentID,
                     CreatedAt |-> now]

\* CommentRepo.CreateComment of the struct of goroutine p, the last
\* repository call of AddComment and ReplyToComment
CreateComment(p) ==
    /\ IF CanCreateComment(frame[p].comment)
       THEN /\ comments' = comments @@
                    (nextCommentID :> NewCommentRow(frame[p].comment))
            /\ nextCommentID' = nextCommentID + 1
            /\ Finish(p, "ok")
       ELSE /\ Finish(p, "db_error")
            /\ UNCHANGED <<comments, nextCommentID>>
    /\ DBMu' = NULL
    /\ UNCHANGED <<votes, nextVoteID, posts, ops, messages, nextMessageID,
                   now, listing, manager, registry>>

\* CommentHandler.AddComment and the entry of commentService.AddComment: the
\* body is decoded into the struct, the post id comes from the URL
AddCommentCall(p, postID, body) ==
    /\ Begin(p)
    /\ LET c == [body EXCEPT !.PostID = postID]
       IN IF body.AuthorID = NULL
          THEN Respond(p, "AddComment", "bad_request") /\ UNCHANGED DBMu
          ELSE IF c.Content = ""
          THEN Respond(p, "AddComment", "content_required")
               /\ UNCHANGED DBMu
          ELSE Enter(p, "AddComment_user",
                     [EmptyFrame EXCEPT !.op = "AddComment", !.comment = c])
    /\ UNCHANGED <<votes, nextVoteID, posts, comments, threads>>

\* "Check if author exists"
AddCommentUser(p) ==
    /\ InRepo(p, "AddComment_user")
    /\ IF GetUserByID(frame[p].comment.AuthorID)
       THEN Goto(p, "AddComment_post", frame[p])
       ELSE Finish(p, "author_not_found")
    /\ DBMu' = NULL
    /\ UNCHANGED <<votes, nextVoteID, posts, comments, ops, threads>>

\* "Check if post exists"
AddCommentPost(p) ==
    /\ InRepo(p, "AddComment_post")
    /\ IF frame[p].comment.PostID \in DOMAIN posts
       THEN Goto(p, "AddComment_create", frame[p])
       ELSE Finish(p, "post_not_found")
    /\ DBMu' = NULL
    /\ UNCHANGED <<votes, nextVoteID, posts, comments, ops, threads>>

\* "Create the comment via the repository"
AddCommentCreate(p) ==
    /\ InRepo(p, "AddComment_create")
    /\ CreateComment(p)

\* CommentHandler.ReplyToComment and the entry of
\* commentService.ReplyToComment: the parent id comes from the URL
ReplyToCommentCall(p, parentID, body) ==
    /\ Begin(p)
    /\ LET c == [body EXCEPT !.ParentID = parentID]
       IN IF body.AuthorID = NULL
          THEN Respond(p, "ReplyToComment", "bad_request")
               /\ UNCHANGED DBMu
          ELSE IF c.Content = ""
          THEN Respond(p, "ReplyToComment", "content_required")
               /\ UNCHANGED DBMu
          ELSE Enter(p, "ReplyToComment_user",
                     [EmptyFrame EXCEPT !.op = "ReplyToComment",
                                        !.comment = c])
    /\ UNCHANGED <<votes, nextVoteID, posts, comments, threads>>

\* "Check if author exists"
ReplyToCommentUser(p) ==
    /\ InRepo(p, "ReplyToComment_user")
    /\ IF GetUserByID(frame[p].comment.AuthorID)
       THEN Goto(p, "ReplyToComment_parent", frame[p])
       ELSE Finish(p, "author_not_found")
    /\ DBMu' = NULL
    /\ UNCHANGED <<votes, nextVoteID, posts, comments, ops, threads>>

\* ReplyParentPost that keeps the post id of the request
ReplyParentPost_FromRequest(c, parentComment) == c.PostID

\* "The reply should belong to the same post as the parent comment"
ReplyParentPost(c, parentComment) == parentComment.PostID

\* "Check if parent comment exists", then the post of the reply
ReplyToCommentParent(p) ==
    /\ InRepo(p, "ReplyToComment_parent")
    /\ LET c == frame[p].comment
       IN IF c.ParentID \in DOMAIN comments
          THEN Goto(p, "ReplyToComment_create",
                    [frame[p] EXCEPT !.comment.PostID =
                         ReplyParentPost(c, comments[c.ParentID])])
          ELSE Finish(p, "parent_not_found")
    /\ DBMu' = NULL
    /\ UNCHANGED <<votes, nextVoteID, posts, comments, ops, threads>>

\* "Create the reply via the repository"
ReplyToCommentCreate(p) ==
    /\ InRepo(p, "ReplyToComment_create")
    /\ CreateComment(p)

\* CommentHandler.UpdateComment and the entry of
\* commentService.UpdateComment: the comment id comes from the URL
UpdateCommentCall(p, id, body) ==
    /\ Begin(p)
    /\ IF body.Content = ""
       THEN Respond(p, "UpdateComment", "content_required")
            /\ UNCHANGED DBMu
       ELSE Enter(p, "UpdateComment_get",
                  [EmptyFrame EXCEPT !.op = "UpdateComment",
                                     !.comment = [body EXCEPT !.ID = id]])
    /\ UNCHANGED <<votes, nextVoteID, posts, comments, threads>>

\* "Update fields": the loaded comment with the content of the request
UpdateCommentFields(existingComment, comment) ==
    [existingComment EXCEPT !.Content = comment.Content]

\* "Check if comment exists", then "Update fields" on the loaded copy
UpdateCommentGet(p) ==
    /\ InRepo(p, "UpdateComment_get")
    /\ LET c == frame[p].comment
       IN IF c.ID \in DOMAIN comments
          THEN Goto(p, "UpdateComment_update",
                    [frame[p] EXCEPT !.comment =
                         UpdateCommentFields(
                             [ID |-> c.ID,
                              Content |-> comments[c.ID].Content,
                              AuthorID |-> comments[c.ID].AuthorID,
                              PostID |-> comments[c.ID].PostID,
                              ParentID |-> comments[c.ID].ParentID,
                              Karma |-> comments[c.ID].Karma], c)])
          ELSE Finish(p, "comment_not_found")
    /\ DBMu' = NULL
    /\ UNCHANGED <<votes, nextVoteID, posts, comments, ops, threads>>

\* UpdateCommentWhere without the WHERE clause
UpdateCommentWhere_All(id, comment) == TRUE

\* "WHERE id = $2" of UPDATE comments
UpdateCommentWhere(id, comment) == id = comment.ID

\* "Update the comment via the repository": UPDATE comments ... RETURNING
\* updated_at, an error when no row comes back
UpdateCommentUpdate(p) ==
    /\ InRepo(p, "UpdateComment_update")
    /\ LET c == frame[p].comment
       IN IF c.ID \in DOMAIN comments
          THEN /\ comments' =
                     [i \in DOMAIN comments |->
                         IF UpdateCommentWhere(i, c)
                         THEN UpdateCommentRow(comments[i], c)
                         ELSE comments[i]]
               /\ Finish(p, "ok")
          ELSE /\ Finish(p, "db_error")
               /\ UNCHANGED comments
    /\ DBMu' = NULL
    /\ UNCHANGED <<votes, nextVoteID, posts, ops, threads>>

\* postService.UpdatePost: title and content are required
UpdatePostCall(p, id, title, content) ==
    /\ Begin(p)
    /\ IF title = "" \/ content = ""
       THEN Respond(p, "UpdatePost", "content_required") /\ UNCHANGED DBMu
       ELSE Enter(p, "UpdatePost_get",
                  [EmptyFrame EXCEPT !.op = "UpdatePost",
                                     !.target.ID = id,
                                     !.target.Content = content])
    /\ UNCHANGED <<votes, nextVoteID, posts, comments, threads>>

\* "Check if post exists", then "Update fields" on the loaded copy
UpdatePostGet(p) ==
    /\ InRepo(p, "UpdatePost_get")
    /\ LET t == frame[p].target
       IN IF t.ID \in DOMAIN posts
          THEN Goto(p, "UpdatePost_update",
                    [frame[p] EXCEPT !.target.Karma = posts[t.ID].Karma])
          ELSE Finish(p, "post_not_found")
    /\ DBMu' = NULL
    /\ UNCHANGED <<votes, nextVoteID, posts, comments, ops, threads>>

\* "Update the post via the repository"
UpdatePostUpdate(p) ==
    /\ InRepo(p, "UpdatePost_update")
    /\ LET t == frame[p].target
       IN IF t.ID \in DOMAIN posts
          THEN /\ posts' = [posts EXCEPT ![t.ID] = UpdatePostRow(@, t)]
               /\ Finish(p, "ok")
          ELSE /\ Finish(p, "db_error")
               /\ UNCHANGED posts
    /\ DBMu' = NULL
    /\ UNCHANGED <<votes, nextVoteID, comments, ops, threads>>

\* voteService.UpdateKarma called on its own
UpdateKarmaCall(p, targetType, targetID, delta) ==
    /\ Begin(p)
    /\ IF targetType \notin {"post", "comment"}
       THEN Respond(p, "UpdateKarma", "invalid_target") /\ UNCHANGED DBMu
       ELSE Enter(p, "UpdateKarma_get",
                  [EmptyFrame EXCEPT !.op = "UpdateKarma",
                                     !.targetType = targetType,
                                     !.targetID = targetID,
                                     !.delta = delta])
    /\ UNCHANGED <<votes, nextVoteID, posts, comments, threads>>

\* MessageHandler.SendMessage and the entry of messageService.SendMessage:
\* the whole struct is decoded from the body
SendMessageCall(p, body) ==
    /\ Begin(p)
    /\ IF body.Content = ""
       THEN Respond(p, "SendMessage", "content_required") /\ UNCHANGED DBMu
       ELSE IF body.SenderID = body.ReceiverID
       THEN Respond(p, "SendMessage", "self_reference") /\ UNCHANGED DBMu
       ELSE Enter(p, "SendMessage_sender",
                  [EmptyFrame EXCEPT !.op = "SendMessage",
                                     !.message = body])
    /\ UNCHANGED <<votes, nextVoteID, posts, comments, threads>>

\* "Check if sender exists"
SendMessageSender(p) ==
    /\ InRepo(p, "SendMessage_sender")
    /\ IF GetUserByID(frame[p].message.SenderID)
       THEN Goto(p, "SendMessage_receiver", frame[p])
       ELSE Finish(p, "sender_not_found")
    /\ DBMu' = NULL
    /\ UNCHANGED <<votes, nextVoteID, posts, comments, ops, threads>>

\* "Check if receiver exists"
SendMessageReceiver(p) ==
    /\ InRepo(p, "SendMessage_receiver")
    /\ IF GetUserByID(frame[p].message.ReceiverID)
       THEN Goto(p, "SendMessage_create", frame[p])
       ELSE Finish(p, "receiver_not_found")
    /\ DBMu' = NULL
    /\ UNCHANGED <<votes, nextVoteID, posts, comments, ops, threads>>

\* MessageRepo.SendMessage of the struct of goroutine p: INSERT INTO
\* messages, the last repository call of SendMessage and ReplyToMessage
CreateMessage(p) ==
    /\ IF CanSendMessage(frame[p].message)
       THEN /\ messages' = messages @@
                    (nextMessageID :> NewMessageRow(frame[p].message))
            /\ nextMessageID' = nextMessageID + 1
            /\ Finish(p, "ok")
       ELSE /\ Finish(p, "db_error")
            /\ UNCHANGED <<messages, nextMessageID>>
    /\ DBMu' = NULL
    /\ UNCHANGED <<votes, nextVoteID, posts, comments, ops, nextCommentID,
                   now, listing, manager, registry>>

\* "Create the message via the repository"
SendMessageCreate(p) ==
    /\ InRepo(p, "SendMessage_create")
    /\ CreateMessage(p)

\* MessageHandler.ReplyToMessage and the entry of
\* messageService.ReplyToMessage: the parent id comes from the URL, the
\* receiver compared with the sender is the one the body carries
ReplyToMessageCall(p, parentID, body) ==
    /\ Begin(p)
    /\ LET m == [body EXCEPT !.ParentID = parentID]
       IN IF m.Content = ""
          THEN Respond(p, "ReplyToMessage", "content_required")
               /\ UNCHANGED DBMu
          ELSE IF m.SenderID = m.ReceiverID
          THEN Respond(p, "ReplyToMessage", "self_reference")
               /\ UNCHANGED DBMu
          ELSE Enter(p, "ReplyToMessage_sender",
                     [EmptyFrame EXCEPT !.op = "ReplyToMessage",
                                        !.message = m])
    /\ UNCHANGED <<votes, nextVoteID, posts, comments, threads>>

\* "Check if sender exists"
ReplyToMessageSender(p) ==
    /\ InRepo(p, "ReplyToMessage_sender")
    /\ IF GetUserByID(frame[p].message.SenderID)
       THEN Goto(p, "ReplyToMessage_parent", frame[p])
       ELSE Finish(p, "sender_not_found")
    /\ DBMu' = NULL
    /\ UNCHANGED <<votes, nextVoteID, posts, comments, ops, threads>>

\* "The reply should be sent to the original sender of the parent message"
ReplyReceiver(m, parentMessage) == parentMessage.SenderID

\* "Check if parent message exists", then the receiver of the reply
ReplyToMessageParent(p) ==
    /\ InRepo(p, "ReplyToMessage_parent")
    /\ LET m == frame[p].message
       IN IF m.ParentID \in DOMAIN messages
          THEN Goto(p, "ReplyToMessage_create",
                    [frame[p] EXCEPT !.message.ReceiverID =
                         ReplyReceiver(m, messages[m.ParentID])])
          ELSE Finish(p, "parent_not_found")
    /\ DBMu' = NULL
    /\ UNCHANGED <<votes, nextVoteID, posts, comments, ops, threads>>

\* "Create the reply via the repository"
ReplyToMessageCreate(p) ==
    /\ InRepo(p, "ReplyToMessage_create")
    /\ CreateMessage(p)

\* MessageHandler.UpdateMessage and the entry of
\* messageService.UpdateMessage: the body is decoded into the struct, the
\* message id comes from the URL
UpdateMessageCall(p, id, body) ==
    /\ Begin(p)
    /\ IF body.Content = ""
       THEN Respond(p, "UpdateMessage", "content_required")
            /\ UNCHANGED DBMu
       ELSE Enter(p, "UpdateMessage_get",
                  [EmptyFrame EXCEPT !.op = "UpdateMessage",
                                     !.message = [body EXCEPT !.ID = id]])
    /\ UNCHANGED <<votes, nextVoteID, posts, comments, threads>>

\* "Update fields": the loaded message with the content of the request
UpdateMessageFields(existingMessage, message) ==
    [existingMessage EXCEPT !.Content = message.Content]

\* "Check if message exists", then "Update fields" on the loaded copy
UpdateMessageGet(p) ==
    /\ InRepo(p, "UpdateMessage_get")
    /\ LET m == frame[p].message
       IN IF m.ID \in DOMAIN messages
          THEN Goto(p, "UpdateMessage_update",
                    [frame[p] EXCEPT !.message =
                         UpdateMessageFields(
                             [ID |-> m.ID,
                              SenderID |-> messages[m.ID].SenderID,
                              ReceiverID |-> messages[m.ID].ReceiverID,
                              Content |-> messages[m.ID].Content,
                              ParentID |-> messages[m.ID].ParentID], m)])
          ELSE Finish(p, "message_not_found")
    /\ DBMu' = NULL
    /\ UNCHANGED <<votes, nextVoteID, posts, comments, ops, threads>>

\* "WHERE id = $2" of UPDATE messages
UpdateMessageWhere(id, message) == id = message.ID

\* the columns UPDATE messages sets
UpdateMessageRow(row, message) == [row EXCEPT !.Content = message.Content]

\* MessageRepo.UpdateMessage: UPDATE messages ... RETURNING updated_at, an
\* error when no row comes back
UpdateMessageUpdate(p) ==
    /\ InRepo(p, "UpdateMessage_update")
    /\ LET m == frame[p].message
       IN IF m.ID \in DOMAIN messages
          THEN /\ messages' =
                     [i \in DOMAIN messages |->
                         IF UpdateMessageWhere(i, m)
                         THEN UpdateMessageRow(messages[i], m)
                         ELSE messages[i]]
               /\ Finish(p, "ok")
          ELSE /\ Finish(p, "db_error")
               /\ UNCHANGED messages
    /\ DBMu' = NULL
    /\ UNCHANGED <<votes, nextVoteID, posts, comments, ops, nextCommentID,
                   nextMessageID, now, listing, manager, registry>>

(* ------------------------------ listings ------------------------------ *)
\* seconds CURRENT_TIMESTAMP runs through
Times == {0, 1}

\* a second passes
Tick ==
    /\ now + 1 \in Times
    /\ now' = now + 1
    /\ UNCHANGED <<votes, nextVoteID, posts, comments, DBMu, pc, frame,
                   response, ops, nextCommentID, messages, nextMessageID,
                   hist, listing, manager, registry>>

\* "LIMIT $2 OFFSET $3" values a request may carry, as parsePaginationParams
\* lets them through: a limit above 0, an offset of 0 or more
Limits == {1, 2}
Offsets == {0, 1}

\* Before that puts the later row of a second first
Before_TiesDescending(table, a, b, desc) ==
    IF table[a].CreatedAt # table[b].CreatedAt
    THEN IF desc THEN table[a].CreatedAt > table[b].CreatedAt
                 ELSE table[a].CreatedAt < table[b].CreatedAt
    ELSE a > b

\* ORDER BY created_at of a query with a LIMIT: SQLite scans the table in
\* rowid order and sorts on (created_at, position in the scan), so rows of
\* the same second come out in ascending id, for ASC and for DESC
Before(table, a, b, desc) ==
    IF table[a].CreatedAt # table[b].CreatedAt
    THEN IF desc THEN table[a].CreatedAt > table[b].CreatedAt
                 ELSE table[a].CreatedAt < table[b].CreatedAt
    ELSE a < b

RECURSIVE OrderBy(_, _, _)
OrderBy(table, ids, desc) ==
    IF ids = {} THEN <<>>
    ELSE LET first == CHOOSE a \in ids :
                          \A b \in ids \ {a} : Before(table, a, b, desc)
         IN <<first>> \o OrderBy(table, ids \ {first}, desc)

\* "LIMIT $2 OFFSET $3"
LimitOffset(ids, limit, offset) ==
    SubSeq(ids, offset + 1, Min({Len(ids), offset + limit}))

\* rows.Scan of the rows with the ids of the sequence
ScanRows(table, ids) ==
    [i \in 1..Len(ids) |-> [ID |-> ids[i]] @@ table[ids[i]]]

\* RootCommentWhere without "parent_id IS NULL"
RootCommentWhere_AnyParent(row, postID) == row.PostID = postID

\* "WHERE post_id = $1 AND parent_id IS NULL"
RootCommentWhere(row, postID) == row.PostID = postID /\ row.ParentID = NULL

\* "WHERE receiver_id = $1 AND parent_id IS NULL"
RootMessageWhere(row, userID) ==
    row.ReceiverID = userID /\ row.ParentID = NULL

\* ReplyWhere that takes every reply, whatever its parent
ReplyWhere_AnyParent(row, parentID) == row.ParentID # NULL

\* "WHERE parent_id = $1"
ReplyWhere(row, parentID) == SqlEq(row.ParentID, parentID)

\* the SELECT of CommentRepo.GetCommentsByPost
SelectCommentsByPost(postID, limit, offset) ==
    ScanRows(comments,
        LimitOffset(OrderBy(comments,
                            {c \in DOMAIN comments :
                                RootCommentWhere(comments[c], postID)}, TRUE),
                    limit, offset))

\* the SELECT of CommentRepo.GetReplies
SelectReplies(parentID, limit, offset) ==
    ScanRows(comments,
        LimitOffset(OrderBy(comments,
                            {c \in DOMAIN comments :
                                ReplyWhere(comments[c], parentID)}, FALSE),
                    limit, offset))

\* the SELECT of MessageRepo.GetMessagesForUser
SelectMessagesForUser(userID, limit, offset) ==
    ScanRows(messages,
        LimitOffset(OrderBy(messages,
                            {m \in DOMAIN messages :
                                RootMessageWhere(messages[m], userID)}, TRUE),
                    limit, offset))

\* the SELECT of MessageRepo.GetReplies
SelectMessageReplies(parentID, limit, offset) ==
    ScanRows(messages,
        LimitOffset(OrderBy(messages,
                            {m \in DOMAIN messages :
                                ReplyWhere(messages[m], parentID)}, FALSE),
                    limit, offset))

\* a list call of goroutine p returns rows
Listed(p, rows) ==
    /\ listing' = [op |-> frame[p].op, arg |-> frame[p].targetID,
                   limit |-> frame[p].limit, offset |-> frame[p].offset,
                   rows |-> rows]
    /\ Finish(p, "ok")
    /\ DBMu' = NULL
    /\ UNCHANGED <<votes, nextVoteID, posts, comments, ops, nextCommentID,
                   messages, nextMessageID, now, manager, registry>>

\* the frame of a list call
ListFrame(op, id, limit, offset) ==
    [EmptyFrame EXCEPT !.op = op, !.targetID = id, !.limit = limit,
                       !.offset = offset]

\* commentService.GetCommentsByPost
GetCommentsByPostCall(p, postID, limit, offset) ==
    /\ Begin(p)
    /\ Enter(p, "GetCommentsByPost_post",
             ListFrame("GetCommentsByPost", postID, limit, offset))
    /\ UNCHANGED <<votes, nextVoteID, posts, comments, threads>>

\* "Check if post exists"
GetCommentsByPostPost(p) ==
    /\ InRepo(p, "GetCommentsByPost_post")
    /\ IF frame[p].targetID \in DOMAIN posts
       THEN Goto(p, "GetCommentsByPost_query", frame[p])
       ELSE Finish(p, "post_not_found")
    /\ DBMu' = NULL
    /\ UNCHANGED <<votes, nextVoteID, posts, comments, ops, threads>>

\* CommentRepo.GetCommentsByPost
GetCommentsByPostQuery(p) ==
    /\ InRepo(p, "GetCommentsByPost_query")
    /\ Listed(p, SelectCommentsByPost(frame[p].targetID, frame[p].limit,
                                      frame[p].offset))

\* commentService.GetReplies
GetRepliesCall(p, parentID, limit, offset) ==
    /\ Begin(p)
    /\ Enter(p, "GetReplies_parent",
             ListFrame("GetReplies", parentID, limit, offset))
    /\ UNCHANGED <<votes, nextVoteID, posts, comments, threads>>

\* "Check if parent comment exists"
GetRepliesParent(p) ==
    /\ InRepo(p, "GetReplies_parent")
    /\ IF frame[p].targetID \in DOMAIN comments
       THEN Goto(p, "GetReplies_query", frame[p])
       ELSE Finish(p, "parent_not_found")
    /\ DBMu' = NULL
    /\ UNCHANGED <<votes, nextVoteID, posts, comments, ops, threads>>

\* CommentRepo.GetReplies
GetRepliesQuery(p) ==
    /\ InRepo(p, "GetReplies_query")
    /\ Listed(p, SelectReplies(frame[p].targetID, frame[p].limit,
                               frame[p].offset))

\* messageService.GetMessagesForUser: the one repository call
GetMessagesForUserCall(p, userID, limit, offset) ==
    /\ Begin(p)
    /\ Enter(p, "GetMessagesForUser_query",
             ListFrame("GetMessagesForUser", userID, limit, offset))
    /\ UNCHANGED <<votes, nextVoteID, posts, comments, threads>>

\* MessageRepo.GetMessagesForUser
GetMessagesForUserQuery(p) ==
    /\ InRepo(p, "GetMessagesForUser_query")
    /\ Listed(p, SelectMessagesForUser(frame[p].targetID, frame[p].limit,
                                       frame[p].offset))

\* messageService.GetReplies
MessageGetRepliesCall(p, parentID, limit, offset) ==
    /\ Begin(p)
    /\ Enter(p, "MessageGetReplies_parent",
             ListFrame("MessageGetReplies", parentID, limit, offset))
    /\ UNCHANGED <<votes, nextVoteID, posts, comments, threads>>

\* "Check if parent message exists"
MessageGetRepliesParent(p) ==
    /\ InRepo(p, "MessageGetReplies_parent")
    /\ IF frame[p].targetID \in DOMAIN messages
       THEN Goto(p, "MessageGetReplies_query", frame[p])
       ELSE Finish(p, "parent_not_found")
    /\ DBMu' = NULL
    /\ UNCHANGED <<votes, nextVoteID, posts, comments, ops, threads>>

\* MessageRepo.GetReplies
MessageGetRepliesQuery(p) ==
    /\ InRepo(p, "MessageGetReplies_query")
    /\ Listed(p, SelectMessageReplies(frame[p].targetID, frame[p].limit,
                                      frame[p].offset))

\* bodies of the comment requests: the parent id is any comment or the next
\* id, which no comment has
CommentBodies(postIDs, parentIDs) ==
    {[NoComment EXCEPT !.Content = c, !.AuthorID = a, !.PostID = i,
                       !.ParentID = q] :
        c \in Contents, a \in Authors, i \in postIDs, q \in parentIDs}

\* bodies of the update requests: the content, and the other fields either
\* all left out or all set
CommentUpdateBodies ==
    {[NoComment EXCEPT !.Content = c, !.AuthorID = a, !.PostID = a,
                       !.ParentID = a] :
        c \in Contents, a \in {NULL, NumUsers}}

MessageUpdateBodies ==
    {[NoMessage EXCEPT !.Content = c, !.SenderID = a, !.ReceiverID = a,
                       !.ParentID = a] :
        c \in {"", "c2"}, a \in {NULL, NumUsers}}

\* bodies of the message requests
MessageBodies ==
    {[NoMessage EXCEPT !.SenderID = a, !.ReceiverID = b, !.Content = c,
                       !.ParentID = q] :
        a \in Users, b \in Users, c \in Contents,
        q \in {NULL} \cup DOMAIN messages \cup {nextMessageID}}

\* bodies of the message reply requests: the receiver is left out, or any
\* user
ReplyBodies ==
    {[NoMessage EXCEPT !.SenderID = a, !.ReceiverID = b, !.Content = c] :
        a \in Users, b \in {NULL} \cup Users, c \in Contents}

\* bodies of the post requests
PostBodies ==
    {[NoPost EXCEPT !.Title = t, !.Content = "c1", !.AuthorID = a] :
        t \in Contents, a \in Authors}

\* subreddit ids and user ids a request may name; the last one of each is
\* not in the store at the start
SubredditIDs == {1, 2}
UserIDs == Users \cup {NumUsers + 1}

\* usernames, e-mail addresses and subreddit names a request may carry:
\* none, the one of the first row, one that no row has at the start
Names == {NULL, 1, NumUsers + 1}
SubredditNames == {NULL, 1, 2}

\* a password of 73 bytes, one more than bcrypt takes
LongPassword ==
    "0123456789012345678901234567890123456789012345678901234567890123456789012"

\* bodies of the registrations: the e-mail address of the first user under
\* each name with and without a password, each name with the address of
\* the same number, and the new name with a password that is too long
RegisterBodies ==
    {[NoUser EXCEPT !.Username = n, !.Email = 1, !.Password = w] :
        n \in Names, w \in {"", "pw"}} \cup
    {[NoUser EXCEPT !.Username = n, !.Email = n, !.Password = "pw"] :
        n \in Names} \cup
    {[NoUser EXCEPT !.Username = NumUsers + 1, !.Email = NumUsers + 1,
                    !.Password = LongPassword]}

\* bodies of the profile updates, for the last user and for the user id
\* after the last: each name with the password left as it is, and the new
\* name with a password that bcrypt takes and with one that is too long
ProfileBodies ==
    {[NoUser EXCEPT !.Username = n, !.Email = n] : n \in Names} \cup
    {[NoUser EXCEPT !.Username = NumUsers + 1, !.Email = NumUsers + 1,
                    !.Password = w] : w \in {"pw", LongPassword}}
ProfileIDs == {NumUsers, NumUsers + 1}

\* bodies of the subreddit requests
SubredditBodies ==
    {[NoSubreddit EXCEPT !.Name = n, !.CreatedBy = a] :
        n \in SubredditNames, a \in Authors}
SubredditUpdateBodies ==
    {[NoSubreddit EXCEPT !.Name = n] : n \in SubredditNames}

\* the calls of the routes that add or delete rows of the tables the nodes
\* hang on, or rename them
StoreCalls(p) ==
    \/ /\ Ready(p)
       /\ \E body \in RegisterBodies : RegisterUserCall(p, body)
    \/ /\ Ready(p)
       /\ \E id \in ProfileIDs, body \in ProfileBodies :
              UpdateUserProfileCall(p, id, body)
    \/ /\ Ready(p)
       /\ \E body \in SubredditBodies : CreateSubredditCall(p, body)
    \/ /\ Ready(p)
       /\ \E id \in SubredditIDs, body \in SubredditUpdateBodies :
              UpdateSubredditCall(p, id, body)
    \/ /\ Ready(p)
       /\ \E subredditID \in SubredditIDs, body \in PostBodies :
              CreatePostCall(p, subredditID, body)
    \/ /\ Ready(p)
       /\ \E id \in ThreadPostIDs : DeletePostCall(p, id)
    \/ /\ Ready(p)
       /\ \E id \in DOMAIN comments \cup {nextCommentID} :
              DeleteCommentCall(p, id)
    \/ /\ Ready(p)
       /\ \E id \in DOMAIN messages \cup {nextMessageID} :
              DeleteMessageCall(p, id)
    \/ /\ Ready(p)
       /\ \E id \in UserIDs : DeleteUserCall(p, id)
    \/ /\ Ready(p)
       /\ \E id \in SubredditIDs : DeleteSubredditCall(p, id)

\* the repository methods of these calls
StoreSteps(p) ==
    \/ RegisterUserName(p)
    \/ RegisterUserCreate(p)
    \/ UpdateUserProfileGet(p)
    \/ UpdateUserProfileUpdate(p)
    \/ CreateSubredditName(p)
    \/ CreateSubredditCreate(p)
    \/ UpdateSubredditGet(p)
    \/ UpdateSubredditName(p)
    \/ UpdateSubredditUpdate(p)
    \/ CreatePostUser(p)
    \/ CreatePostSubreddit(p)
    \/ CreatePostCreate(p)
    \/ DeletePostExec(p)
    \/ DeleteCommentExec(p)
    \/ DeleteMessageExec(p)
    \/ DeleteUserExec(p)
    \/ DeleteSubredditExec(p)

NextThread ==
    \E p \in Procs :
        \/ /\ Ready(p)
           /\ \E postID \in ThreadPostIDs,
                 body \in CommentBodies({NULL}, {NULL} \cup DOMAIN comments
                                                      \cup {nextCommentID}) :
                  AddCommentCall(p, postID, body)
        \/ /\ Ready(p)
           /\ \E parentID \in DOMAIN comments \cup {nextCommentID},
                 body \in CommentBodies({NULL} \cup ThreadPosts, {NULL}) :
                  ReplyToCommentCall(p, parentID, body)
        \/ /\ Ready(p)
           /\ \E id \in DOMAIN comments \cup {nextCommentID},
                 body \in {b \in CommentUpdateBodies : b.AuthorID = NULL} :
                  UpdateCommentCall(p, id, body)
        \/ /\ Ready(p)
           /\ \E id \in ThreadPostIDs, title \in Contents,
                 content \in Contents :
                  UpdatePostCall(p, id, title, content)
        \/ /\ Ready(p)
           /\ \E targetType \in {"post", "comment", "user"},
                 targetID \in ThreadPostIDs, delta \in {1} :
                  UpdateKarmaCall(p, targetType, targetID, delta)
        \/ /\ Ready(p)
           /\ \E body \in MessageBodies : SendMessageCall(p, body)
        \/ StoreCalls(p)
        \/ StoreSteps(p)
        \/ Lock(p)
        \/ AddCommentUser(p)
        \/ AddCommentPost(p)
        \/ AddCommentCreate(p)
        \/ ReplyToCommentUser(p)
        \/ ReplyToCommentParent(p)
        \/ ReplyToCommentCreate(p)
        \/ UpdateCommentGet(p)
        \/ UpdateCommentUpdate(p)
        \/ UpdatePostGet(p)
        \/ UpdatePostUpdate(p)
        \/ UpdateKarmaGet(p)
        \/ UpdateKarmaUpdate(p)
        \/ SendMessageSender(p)
        \/ SendMessageReceiver(p)
        \/ SendMessageCreate(p)

\* two posts, one top-level comment on post 1, no message
InitThread == Start(ThreadPosts, NoHist)
SpecThread == InitThread /\ [][NextThread]_vars

\* a store with replies at two depths, left by an AddComment, two
\* ReplyToComment, a SendMessage and two ReplyToMessage of the same second:
\* comment 1, its reply 2 and the reply 3 to that reply; message 1 from
\* user 1 to the last user, the reply 2 to it and the reply 3 to that
\* reply; the observer in state h
StartList(h) ==
    /\ votes = <<>>
    /\ nextVoteID = 1
    /\ posts = [i \in ThreadPosts |-> FirstPost]
    /\ comments = (1 :> FirstComment) @@
                  (2 :> [FirstComment EXCEPT !.Content = "c1",
                                             !.ParentID = 1]) @@
                  (3 :> [FirstComment EXCEPT !.Content = "c1",
                                             !.ParentID = 2])
    /\ nextCommentID = 4
    /\ messages = (1 :> [SenderID |-> 1, ReceiverID |-> NumUsers,
                         Content |-> "c1", ParentID |-> NULL,
                         CreatedAt |-> 0]) @@
                  (2 :> [SenderID |-> NumUsers, ReceiverID |-> 1,
                         Content |-> "c1", ParentID |-> 1,
                         CreatedAt |-> 0]) @@
                  (3 :> [SenderID |-> 1, ReceiverID |-> NumUsers,
                         Content |-> "c1", ParentID |-> 2,
                         CreatedAt |-> 0])
    /\ nextMessageID = 4
    /\ DBMu = NULL
    /\ pc = [p \in Procs |-> "idle"]
    /\ frame = [p \in Procs |-> EmptyFrame]
    /\ response = Return("none", "none")
    /\ ops = 0
    /\ hist = h
    /\ now = 0
    /\ listing = NoListing
    /\ dm_db = DmStart
    /\ dm_mu = DmFree
    /\ users = FirstUsers
    /\ subreddits = (1 :> FirstSubreddit)
    /\ nextUserID = NumUsers + 1
    /\ nextSubredditID = 2
    /\ nextPostID = Cardinality(ThreadPosts) + 1

\* the replies and the edits of comments and messages, run concurrently
NextReply ==
    \E p \in Procs :
        \/ /\ Ready(p)
           /\ \E body \in MessageBodies : SendMessageCall(p, body)
        \/ /\ Ready(p)
           /\ \E parentID \in DOMAIN messages \cup {nextMessageID},
                 body \in ReplyBodies :
                  ReplyToMessageCall(p, parentID, body)
        \/ /\ Ready(p)
           /\ \E id \in DOMAIN messages \cup {nextMessageID},
                 body \in MessageUpdateBodies :
                  UpdateMessageCall(p, id, body)
        \/ /\ Ready(p)
           /\ \E parentID \in DOMAIN comments \cup {nextCommentID},
                 body \in CommentBodies({NULL}, {NULL}) :
                  ReplyToCommentCall(p, parentID, body)
        \/ /\ Ready(p)
           /\ \E id \in DOMAIN comments \cup {nextCommentID},
                 body \in CommentUpdateBodies :
                  UpdateCommentCall(p, id, body)
        \/ StoreCalls(p)
        \/ StoreSteps(p)
        \/ Lock(p)
        \/ SendMessageSender(p)
        \/ SendMessageReceiver(p)
        \/ SendMessageCreate(p)
        \/ ReplyToMessageSender(p)
        \/ ReplyToMessageParent(p)
        \/ ReplyToMessageCreate(p)
        \/ UpdateMessageGet(p)
        \/ UpdateMessageUpdate(p)
        \/ ReplyToCommentUser(p)
        \/ ReplyToCommentParent(p)
        \/ ReplyToCommentCreate(p)
        \/ UpdateCommentGet(p)
        \/ UpdateCommentUpdate(p)

SpecReply == InitThread /\ [][NextReply]_vars

\* the requests that add to the store of the listings: well-formed, by
\* user 1 or to user 1
ListComment == [NoComment EXCEPT !.Content = "c1", !.AuthorID = 1]
ListMessages ==
    {[NoMessage EXCEPT !.Content = "c1", !.SenderID = a, !.ReceiverID = b] :
        a \in {1, NumUsers}, b \in {1, NumUsers}}

\* the listings next to the calls that add nodes, while the clock runs
NextList ==
    \/ \E p \in Procs :
        \/ /\ Ready(p)
           /\ \E postID \in ThreadPosts : AddCommentCall(p, postID, ListComment)
        \/ /\ Ready(p)
           /\ \E parentID \in DOMAIN comments :
                  ReplyToCommentCall(p, parentID, ListComment)
        \/ /\ Ready(p)
           /\ \E body \in ListMessages : SendMessageCall(p, body)
        \/ /\ Ready(p)
           /\ \E parentID \in DOMAIN messages, body \in ListMessages :
                  ReplyToMessageCall(p, parentID, body)
        \/ /\ Ready(p)
           /\ \E postID \in ThreadPostIDs, limit \in Limits,
                 offset \in Offsets :
                  GetCommentsByPostCall(p, postID, limit, offset)
        \/ /\ Ready(p)
           /\ \E parentID \in DOMAIN comments \cup {nextCommentID},
                 limit \in Limits, offset \in Offsets :
                  GetRepliesCall(p, parentID, limit, offset)
        \/ /\ Ready(p)
           /\ \E userID \in Users, limit \in Limits, offset \in Offsets :
                  GetMessagesForUserCall(p, userID, limit, offset)
        \/ /\ Ready(p)
           /\ \E parentID \in DOMAIN messages \cup {nextMessageID},
                 limit \in Limits, offset \in Offsets :
                  MessageGetRepliesCall(p, parentID, limit, offset)
        \/ StoreCalls(p)
        \/ StoreSteps(p)
        \/ Lock(p)
        \/ AddCommentUser(p)
        \/ AddCommentPost(p)
        \/ AddCommentCreate(p)
        \/ ReplyToCommentUser(p)
        \/ ReplyToCommentParent(p)
        \/ ReplyToCommentCreate(p)
        \/ SendMessageSender(p)
        \/ SendMessageReceiver(p)
        \/ SendMessageCreate(p)
        \/ ReplyToMessageSender(p)
        \/ ReplyToMessageParent(p)
        \/ ReplyToMessageCreate(p)
        \/ GetCommentsByPostPost(p)
        \/ GetCommentsByPostQuery(p)
        \/ GetRepliesParent(p)
        \/ GetRepliesQuery(p)
        \/ GetMessagesForUserQuery(p)
        \/ MessageGetRepliesParent(p)
        \/ MessageGetRepliesQuery(p)
    \/ Tick

\* the calls made one after the other
InitList == StartList(StartHist)
SpecList == InitList /\ [][NextList]_vars

\* the listing of the replies of a comment next to the calls that add
\* comments, run concurrently
NextReplies ==
    \/ \E p \in Procs :
        \/ /\ Ready(p)
           /\ \E postID \in ThreadPosts : AddCommentCall(p, postID, ListComment)
        \/ /\ Ready(p)
           /\ \E parentID \in DOMAIN comments :
                  ReplyToCommentCall(p, parentID, ListComment)
        \/ /\ Ready(p)
           /\ \E parentID \in DOMAIN comments \cup {nextCommentID},
                 limit \in Limits, offset \in Offsets :
                  GetRepliesCall(p, parentID, limit, offset)
        \/ StoreCalls(p)
        \/ StoreSteps(p)
        \/ Lock(p)
        \/ AddCommentUser(p)
        \/ AddCommentPost(p)
        \/ AddCommentCreate(p)
        \/ ReplyToCommentUser(p)
        \/ ReplyToCommentParent(p)
        \/ ReplyToCommentCreate(p)
        \/ GetRepliesParent(p)
        \/ GetRepliesQuery(p)
    \/ Tick

InitReplies == StartList(NoHist)
SpecReplies == InitReplies /\ [][NextReplies]_vars

(* -------------------------- concurrent removals ----------------------- *)
\* the store once CastVote{UserID: 1, PostID: 1, "upvote"} has returned:
\* the vote row is stored, the karma column of the post is as it was
\* (UpdatePost does not write it); the observer of concurrent calls is on
InitRemove ==
    /\ votes = (1 :> [UserID |-> 1, PostID |-> 1, CommentID |-> NULL,
                      VoteType |-> "upvote"])
    /\ nextVoteID = 2
    /\ posts = (1 :> FirstPost)
    /\ comments = (1 :> FirstComment)
    /\ nextCommentID = 2
    /\ messages = <<>>
    /\ nextMessageID = 1
    /\ DBMu = NULL
    /\ pc = [p \in Procs |-> "idle"]
    /\ frame = [p \in Procs |-> EmptyFrame]
    /\ response = Return("none", "none")
    /\ ops = 0
    /\ hist = LogHist
    /\ now = 0
    /\ listing = NoListing
    /\ dm_db = DmStart
    /\ dm_mu = DmFree
    /\ users = FirstUsers
    /\ subreddits = (1 :> FirstSubreddit)
    /\ nextUserID = NumUsers + 1
    /\ nextSubredditID = 2
    /\ nextPostID = 2

\* RemoveVote calls, served concurrently
NextRemove ==
    \E p \in Procs :
        \/ /\ Ready(p)
           /\ \E in \in RemoveInputs : RemoveVoteCall(p, in)
        \/ Lock(p)
        \/ RemoveVoteGet(p)
        \/ RemoveVoteDelete(p)
        \/ UpdateKarmaGet(p)
        \/ UpdateKarmaUpdate(p)

SpecRemove == InitRemove /\ [][NextRemove]_vars

(* ------------------------- votes next to edits ------------------------- *)
\* the votes of the requests: well-formed, on one target
EditVoteInputs ==
    {i \in VoteInputs : i.VoteType \in {"upvote", "downvote"} /\ ValidTarget(i)}

\* the vote operations next to the content edits of their targets, served
\* concurrently
NextEdit ==
    \E p \in Procs :
        \/ /\ Ready(p)
           /\ \E in \in EditVoteInputs : CastVoteCall(p, in)
        \/ /\ Ready(p)
           /\ \E in \in EditVoteInputs : ChangeVoteCall(p, in)
        \/ /\ Ready(p)
           /\ \E in \in {i \in RemoveInputs : ValidTarget(i)} :
                  RemoveVoteCall(p, in)
        \/ /\ Ready(p)
           /\ \E id \in TargetIDs : UpdatePostCall(p, id, "c1", "c1")
        \/ /\ Ready(p)
           /\ \E id \in TargetIDs, body \in {b \in CommentUpdateBodies :
                                                 b.AuthorID = NULL} :
                  UpdateCommentCall(p, id, body)
        \/ StoreCalls(p)
        \/ StoreSteps(p)
        \/ Lock(p)
        \/ CastVoteGet(p)
        \/ CastVoteCreate(p)
        \/ ChangeVoteGet(p)
        \/ ChangeVoteUpdate(p)
        \/ RemoveVoteGet(p)
        \/ RemoveVoteDelete(p)
        \/ UpdateKarmaGet(p)
        \/ UpdateKarmaUpdate(p)
        \/ UpdatePostGet(p)
        \/ UpdatePostUpdate(p)
        \/ UpdateCommentGet(p)
        \/ UpdateCommentUpdate(p)

SpecEdit == Init /\ [][NextEdit]_vars

(* -------------------------- every repository write --------------------- *)
\* a well-formed top-level comment and a well-formed message from the first
\* user to the last
MutexComment == [NoComment EXCEPT !.Content = "c1", !.AuthorID = 1]
MutexMessage == [NoMessage EXCEPT !.Content = "c1", !.SenderID = 1,
                                  !.ReceiverID = NumUsers]

\* the operations that write votes, posts, comments and messages next to
\* a reader, served concurrently
NextMutex ==
    \E p \in Procs :
        \/ /\ Ready(p)
           /\ \E in \in {i \in VoteInputs : /\ i.VoteType = "upvote"
                                            /\ i.UserID = 1
                                            /\ ValidTarget(i)} :
                  CastVoteCall(p, in)
        \/ /\ Ready(p)
           /\ \E in \in {i \in VoteInputs : /\ i.VoteType = "downvote"
                                            /\ i.UserID = 1
                                            /\ ValidTarget(i)} :
                  ChangeVoteCall(p, in)
        \/ /\ Ready(p)
           /\ \E in \in {i \in RemoveInputs : i.UserID = 1 /\ ValidTarget(i)} :
                  RemoveVoteCall(p, in)
        \/ /\ Ready(p)
           /\ \E in \in {i \in RemoveInputs : i.UserID = 1 /\ ValidTarget(i)} :
                  GetVoteCall(p, in)
        \/ UpdatePostCall(p, 1, "c1", "c1")
        \/ UpdateCommentCall(p, 1, [NoComment EXCEPT !.Content = "c1"])
        \/ AddCommentCall(p, 1, MutexComment)
        \/ SendMessageCall(p, MutexMessage)
        \/ StoreCalls(p)
        \/ StoreSteps(p)
        \/ Lock(p)
        \/ CastVoteGet(p)
        \/ CastVoteCreate(p)
        \/ ChangeVoteGet(p)
        \/ ChangeVoteUpdate(p)
        \/ RemoveVoteGet(p)
        \/ RemoveVoteDelete(p)
        \/ GetVoteGet(p)
        \/ UpdateKarmaGet(p)
        \/ UpdateKarmaUpdate(p)
        \/ UpdatePostGet(p)
        \/ UpdatePostUpdate(p)
        \/ UpdateCommentGet(p)
        \/ UpdateCommentUpdate(p)
        \/ AddCommentUser(p)
        \/ AddCommentPost(p)
        \/ AddCommentCreate(p)
        \/ SendMessageSender(p)
        \/ SendMessageReceiver(p)
        \/ SendMessageCreate(p)

SpecMutex == Init /\ [][NextMutex]_vars

(* --------------------------- DatabaseManager --------------------------- *)
\* The DatabaseManager of database/methods.go keeps its own SQLite database
\* behind its own sync.RWMutex.  The database is opened without PRAGMA
\* foreign_keys, so no FOREIGN KEY clause of its tables is enforced.  A
\* username and the name of a subreddit are written as numbers.  The
\* statements of Vote fail on a constraint or on an error of the storage
\* (an I/O error, a full disk), those of the other methods on a constraint.

\* arguments of the calls: a user, a target id that exists in DmStart or
\* the first one that does not, a vote value; the direct messages are sent
\* to user 1
DmUserIDs == {1, NumUsers}
DmTargetIDs == {1, MaxTargetID + 1}
DmValues == {1, -1}

\* the database once ResetDatabase has committed: "DELETE FROM" every table
\* and "DELETE FROM sqlite_sequence" for every table
DmEmpty == [votes |-> {}, users |-> <<>>, subreddits |-> <<>>,
            members |-> {}, posts |-> <<>>, comments |-> <<>>,
            messages |-> <<>>,
            seq |-> [users |-> 0, subreddits |-> 0, posts |-> 0,
                     comments |-> 0, messages |-> 0]]

\* INTEGER PRIMARY KEY AUTOINCREMENT: the id of the next row of the table
AutoIncrement(db, table) == db.seq[table] + 1

\* "INSERT INTO table (...) VALUES (...)" without an id
InsertRow(db, table, row) ==
    [db EXCEPT ![table] = @ @@ (AutoIncrement(db, table) :> row),
               !.seq[table] = @ + 1]

\* CHECK(target_type IN ('post', 'comment')), CHECK(vote_value IN (-1, 1))
\* and PRIMARY KEY (user_id, target_id, target_type, vote_value) of the
\* votes table
CanInsertVote(rows, row) ==
    /\ row.TargetType \in {"post", "comment"}
    /\ row.Value \in {-1, 1}
    /\ ~\E r \in rows : /\ r.UserID = row.UserID
                        /\ r.TargetID = row.TargetID
                        /\ r.TargetType = row.TargetType
                        /\ r.Value = row.Value

\* "SELECT author_id FROM posts WHERE id = ?" / "... FROM comments ...":
\* NULL when there is no such row; any type but "post" reads the comments
AuthorOf(db, targetType, targetID) ==
    IF targetType = "post"
    THEN IF targetID \in DOMAIN db.posts THEN db.posts[targetID].AuthorID
         ELSE NULL
    ELSE IF targetID \in DOMAIN db.comments
         THEN db.comments[targetID].AuthorID
         ELSE NULL

\* "UPDATE users SET karma = karma + ? WHERE id = (SELECT author_id ...)":
\* the users table afterwards; no row matches a NULL author or an author
\* that is no user
UpdateUsersKarma(table, author, value) ==
    [u \in DOMAIN table |->
        IF SqlEq(u, author) THEN [table[u] EXCEPT !.Karma = @ + value]
        ELSE table[u]]

\* dm.db.Begin(): the transaction works on the database as it is
BeginTx(db) == [open |-> TRUE, db |-> db]

\* tx.Rollback() that leaves the rows of the transaction in the database
Rollback_KeepsWrites(db, tx) == tx.db

\* tx.Rollback(): the database afterwards
Rollback(db, tx) == db

\* tx.Commit(): the database afterwards
Commit(db, tx) == tx.db

\* dm.mu.Lock() can return
CanLock(mu) == mu.writer = NULL /\ mu.readers = {}

\* dm.mu.RLock() can return
CanRLock(mu) == mu.writer = NULL

\* a call of the manager changes nothing of the repositories
DmCall(p) ==
    /\ Begin(p)
    /\ UNCHANGED <<repos, listing, manager>>

\* DatabaseManager.Vote is called
VoteCall(p, userID, targetID, targetType, value) ==
    /\ DmCall(p)
    /\ Goto(p, "Vote_lock",
            [EmptyFrame EXCEPT !.op = "Vote", !.userID = userID,
                               !.targetID = targetID,
                               !.targetType = targetType, !.value = value])

\* dm.mu.Lock() and dm.db.Begin()
VoteLock(p) ==
    /\ pc[p] = "Vote_lock"
    /\ CanLock(dm_mu)
    /\ dm_mu' = [dm_mu EXCEPT !.writer = p]
    /\ Goto(p, "Vote_insert", [frame[p] EXCEPT !.tx = BeginTx(dm_db)])
    /\ UNCHANGED <<repos, ops, listing, dm_db>>

\* a step of Vote with dm.mu held for writing; the deferred dm.mu.Unlock()
\* runs when the method returns
VoteAt(p, at) == pc[p] = at /\ dm_mu.writer = p

\* the method of goroutine p returns r: its deferred Unlock runs
VoteReturn(p, r) ==
    /\ Finish(p, r)
    /\ dm_mu' = [dm_mu EXCEPT !.writer = NULL]

\* "INSERT INTO votes": on an error tx.Rollback() and the error is returned
VoteInsert(p) ==
    /\ VoteAt(p, "Vote_insert")
    /\ LET f == frame[p]
           row == [UserID |-> f.userID, TargetID |-> f.targetID,
                   TargetType |-> f.targetType, Value |-> f.value]
       IN IF CanInsertVote(f.tx.db.votes, row)
          THEN /\ Goto(p, "Vote_karma",
                       [f EXCEPT !.tx.db.votes = @ \cup {row}])
               /\ UNCHANGED manager
          ELSE /\ dm_db' = Rollback(dm_db, f.tx)
               /\ VoteReturn(p, "record_failed")
    /\ UNCHANGED <<repos, ops, listing>>

\* "UPDATE users SET karma = karma + ?": the statement succeeds or fails
\* (an I/O error, a full disk); on an error tx.Rollback() and the error is
\* returned
VoteKarma(p) ==
    /\ VoteAt(p, "Vote_karma")
    /\ LET f == frame[p]
       IN \E err \in BOOLEAN :
           IF ~err
           THEN /\ Goto(p, "Vote_commit",
                        [f EXCEPT !.tx.db.users =
                            UpdateUsersKarma(@, AuthorOf(f.tx.db,
                                                         f.targetType,
                                                         f.targetID),
                                             f.value)])
                /\ UNCHANGED manager
           ELSE /\ dm_db' = Rollback(dm_db, f.tx)
                /\ VoteReturn(p, "karma_failed")
    /\ UNCHANGED <<repos, ops, listing>>

\* "return tx.Commit()": the commit succeeds, or it fails and SQLite has
\* rolled the transaction back
VoteCommit(p) ==
    /\ VoteAt(p, "Vote_commit")
    /\ \E err \in BOOLEAN :
           IF ~err
           THEN /\ dm_db' = Commit(dm_db, frame[p].tx)
                /\ VoteReturn(p, "ok")
           ELSE /\ UNCHANGED dm_db
                /\ VoteReturn(p, "commit_failed")
    /\ UNCHANGED <<repos, ops, listing>>

\* RegisterUser, CreateSubreddit, JoinSubreddit, LeaveSubreddit, CreatePost,
\* CreateComment, SendDirectMessage or ResetDatabase is called with the
\* arguments in f
WriteCall(p, op, f) ==
    /\ DmCall(p)
    /\ Goto(p, "Write_lock", [f EXCEPT !.op = op])

\* dm.mu.Lock() of these methods
WriteLock(p) ==
    /\ pc[p] = "Write_lock"
    /\ CanLock(dm_mu)
    /\ dm_mu' = [dm_mu EXCEPT !.writer = p]
    /\ Goto(p, "Write_exec", frame[p])
    /\ UNCHANGED <<repos, ops, listing, dm_db>>

\* goroutine p runs the statements of method op with dm.mu held for writing
WriteAt(p, op) == VoteAt(p, "Write_exec") /\ frame[p].op = op

\* DatabaseManager.RegisterUser: "INSERT INTO users (username, password)",
\* karma DEFAULT 0; an error when the username is taken (UNIQUE)
DmRegisterUser(p) ==
    /\ WriteAt(p, "RegisterUser")
    /\ LET name == frame[p].user.Username
       IN IF \E u \in DOMAIN dm_db.users : dm_db.users[u].Username = name
          THEN /\ UNCHANGED dm_db
               /\ VoteReturn(p, "register_failed")
          ELSE /\ dm_db' = InsertRow(dm_db, "users",
                                     [Username |-> name, Karma |-> 0])
               /\ VoteReturn(p, "ok")
    /\ UNCHANGED <<repos, ops, listing>>

\* DatabaseManager.CreateSubreddit: in one transaction "INSERT INTO
\* subreddits", an error when the name is taken (UNIQUE), and "INSERT INTO
\* subreddit_members" of the creator, an error when the row is there
\* already (PRIMARY KEY (subreddit_id, user_id)); tx.Rollback() on an error
DmCreateSubreddit(p) ==
    /\ WriteAt(p, "CreateSubreddit")
    /\ LET s == frame[p].subreddit
           member == <<AutoIncrement(dm_db, "subreddits"), s.CreatedBy>>
           created == [BeginTx(dm_db) EXCEPT
                          !.db = InsertRow(@, "subreddits",
                                           [Name |-> s.Name])]
           joined == [created EXCEPT !.db.members = @ \cup {member}]
       IN IF \E i \in DOMAIN dm_db.subreddits :
                 dm_db.subreddits[i].Name = s.Name
          THEN /\ dm_db' = Rollback(dm_db, BeginTx(dm_db))
               /\ VoteReturn(p, "create_failed")
          ELSE IF member \in created.db.members
          THEN /\ dm_db' = Rollback(dm_db, created)
               /\ VoteReturn(p, "member_failed")
          ELSE /\ dm_db' = Commit(dm_db, joined)
               /\ VoteReturn(p, "ok")
    /\ UNCHANGED <<repos, ops, listing>>

\* DatabaseManager.JoinSubreddit: "INSERT OR IGNORE INTO subreddit_members"
DmJoinSubreddit(p) ==
    /\ WriteAt(p, "JoinSubreddit")
    /\ dm_db' = [dm_db EXCEPT !.members =
                    @ \cup {<<frame[p].targetID, frame[p].userID>>}]
    /\ VoteReturn(p, "ok")
    /\ UNCHANGED <<repos, ops, listing>>

\* DatabaseManager.LeaveSubreddit: "DELETE FROM subreddit_members WHERE
\* subreddit_id = ? AND user_id = ?"
DmLeaveSubreddit(p) ==
    /\ WriteAt(p, "LeaveSubreddit")
    /\ dm_db' = [dm_db EXCEPT !.members =
                    @ \ {<<frame[p].targetID, frame[p].userID>>}]
    /\ VoteReturn(p, "ok")
    /\ UNCHANGED <<repos, ops, listing>>

\* DatabaseManager.CreatePost: "INSERT INTO posts (title, content,
\* author_id, subreddit_id)", created_at DEFAULT CURRENT_TIMESTAMP
DmCreatePost(p) ==
    /\ WriteAt(p, "CreatePost")
    /\ dm_db' = InsertRow(dm_db, "posts",
                          [AuthorID |-> frame[p].post.AuthorID,
                           SubredditID |-> frame[p].post.SubredditID,
                           CreatedAt |-> now])
    /\ VoteReturn(p, "ok")
    /\ UNCHANGED <<repos, ops, listing>>

\* DatabaseManager.CreateComment: "INSERT INTO comments (content,
\* author_id, post_id, parent_comment_id)"
DmCreateComment(p) ==
    /\ WriteAt(p, "CreateComment")
    /\ dm_db' = InsertRow(dm_db, "comments",
                          [AuthorID |-> frame[p].comment.AuthorID,
                           PostID |-> frame[p].comment.PostID,
                           ParentID |-> frame[p].comment.ParentID])
    /\ VoteReturn(p, "ok")
    /\ UNCHANGED <<repos, ops, listing>>

\* DatabaseManager.SendDirectMessage: "INSERT INTO direct_messages
\* (from_user_id, to_user_id, content)", created_at DEFAULT
\* CURRENT_TIMESTAMP
SendDirectMessage(p) ==
    /\ WriteAt(p, "SendDirectMessage")
    /\ dm_db' = InsertRow(dm_db, "messages",
                          [FromUserID |-> frame[p].message.SenderID,
                           ToUserID |-> frame[p].message.ReceiverID,
                           CreatedAt |-> now])
    /\ VoteReturn(p, "ok")
    /\ UNCHANGED <<repos, ops, listing>>

\* DatabaseManager.ResetDatabase: in one transaction every row of every
\* table and of sqlite_sequence is deleted
ResetDatabase(p) ==
    /\ WriteAt(p, "ResetDatabase")
    /\ dm_db' = Commit(dm_db, [BeginTx(dm_db) EXCEPT !.db = DmEmpty])
    /\ VoteReturn(p, "ok")
    /\ UNCHANGED <<repos, ops, listing>>

\* the readers of the manager
DmReaders == {"GetFeed", "GetTopUsers", "GetUserByUsername",
              "GetDirectMessages"}

\* GetFeed(userID), GetTopUsers(limit), GetUserByUsername(username) or
\* GetDirectMessages(userID) is called
ReadCall(p, op, arg) ==
    /\ DmCall(p)
    /\ Goto(p, "Read_rlock",
            [EmptyFrame EXCEPT !.op = op, !.targetID = arg])

\* dm.mu.RLock()
ReadRLock(p) ==
    /\ pc[p] = "Read_rlock"
    /\ CanRLock(dm_mu)
    /\ dm_mu' = [dm_mu EXCEPT !.readers = @ \cup {p}]
    /\ Goto(p, "Read_query", frame[p])
    /\ UNCHANGED <<repos, ops, listing, dm_db>>

\* COUNT(*) of the votes of value v on post id
CountVotes(db, id, v) ==
    Cardinality({r \in db.votes : /\ r.TargetID = id
                                  /\ r.TargetType = "post"
                                  /\ r.Value = v})

\* the query of GetFeed: the posts of the subreddits the user is a member
\* of ("JOIN subreddit_members sm ... WHERE sm.user_id = ?") whose author
\* is a user ("JOIN users u") and whose subreddit is a subreddit ("JOIN
\* subreddits s"), under "ORDER BY p.created_at DESC"
FeedRows(db, userID) ==
    LET ids == OrderBy(db.posts,
                       {i \in DOMAIN db.posts :
                           /\ <<db.posts[i].SubredditID, userID>>
                                  \in db.members
                           /\ db.posts[i].AuthorID \in DOMAIN db.users
                           /\ db.posts[i].SubredditID
                                  \in DOMAIN db.subreddits},
                       TRUE)
    IN [i \in 1..Len(ids) |->
           LET post == db.posts[ids[i]]
           IN [ID |-> ids[i], AuthorID |-> post.AuthorID,
               SubredditID |-> post.SubredditID,
               CreatedAt |-> post.CreatedAt,
               AuthorUsername |-> db.users[post.AuthorID].Username,
               SubredditName |-> db.subreddits[post.SubredditID].Name,
               Upvotes |-> CountVotes(db, ids[i], 1),
               Downvotes |-> CountVotes(db, ids[i], -1)]]

\* users before which user u comes under "ORDER BY u.karma DESC": rows of
\* the same karma come out in ascending id
RankedBefore(db, u) ==
    {w \in DOMAIN db.users :
        \/ db.users[w].Karma > db.users[u].Karma
        \/ db.users[w].Karma = db.users[u].Karma /\ w < u}

\* the query of GetTopUsers: "ORDER BY u.karma DESC LIMIT ?", with
\* "SELECT COUNT(*) FROM posts WHERE author_id = u.id" and the same for the
\* comments
TopUserRows(db, limit) ==
    LET n == Min({limit, Cardinality(DOMAIN db.users)})
    IN [i \in 1..n |->
           LET u == CHOOSE w \in DOMAIN db.users :
                        Cardinality(RankedBefore(db, w)) = i - 1
           IN [ID |-> u, Username |-> db.users[u].Username,
               Karma |-> db.users[u].Karma,
               PostCount |->
                   Cardinality({r \in DOMAIN db.posts :
                                   db.posts[r].AuthorID = u}),
               CommentCount |->
                   Cardinality({r \in DOMAIN db.comments :
                                   db.comments[r].AuthorID = u})]]

\* the query of GetUserByUsername: "WHERE username = ?"
UserRows(db, username) ==
    LET ids == {u \in DOMAIN db.users : db.users[u].Username = username}
    IN IF ids = {} THEN <<>>
       ELSE LET u == CHOOSE w \in ids : TRUE
            IN <<[ID |-> u, Username |-> username,
                  Karma |-> db.users[u].Karma]>>

\* the query of GetDirectMessages: the messages to the user whose sender
\* is a user ("JOIN users u ON dm.from_user_id = u.id WHERE dm.to_user_id
\* = ?"), under "ORDER BY dm.created_at DESC"
DirectMessageRows(db, userID) ==
    LET ids == OrderBy(db.messages,
                       {i \in DOMAIN db.messages :
                           /\ db.messages[i].FromUserID \in DOMAIN db.users
                           /\ db.messages[i].ToUserID = userID},
                       TRUE)
    IN [i \in 1..Len(ids) |->
           LET msg == db.messages[ids[i]]
           IN [ID |-> ids[i], FromUserID |-> msg.FromUserID,
               FromUsername |-> db.users[msg.FromUserID].Username,
               CreatedAt |-> msg.CreatedAt]]

\* the query of a reader with dm.mu held for reading, and the deferred
\* dm.mu.RUnlock()
ReadQuery(p) ==
    /\ pc[p] = "Read_query"
    /\ p \in dm_mu.readers
    /\ LET f == frame[p]
           rows == IF f.op = "GetFeed" THEN FeedRows(dm_db, f.targetID)
                   ELSE IF f.op = "GetTopUsers"
                   THEN TopUserRows(dm_db, f.targetID)
                   ELSE IF f.op = "GetUserByUsername"
                   THEN UserRows(dm_db, f.targetID)
                   ELSE DirectMessageRows(dm_db, f.targetID)
       IN /\ listing' = [op |-> f.op, arg |-> f.targetID, limit |-> 0,
                         offset |-> 0, rows |-> rows]
          /\ Finish(p, IF f.op = "GetUserByUsername" /\ rows = <<>>
                       THEN "user_not_found" ELSE "ok")
    /\ dm_mu' = [dm_mu EXCEPT !.readers = @ \ {p}]
    /\ UNCHANGED <<repos, ops, dm_db>>

\* the methods of the manager, served concurrently, while the seconds pass
NextManager ==
    \/ \E p \in Procs :
        \/ /\ Ready(p)
           /\ \E u \in DmUserIDs, t \in DmTargetIDs,
                 type \in {"post", "comment"}, v \in DmValues :
                  VoteCall(p, u, t, type, v)
        \/ /\ Ready(p)
           /\ \E op \in DmReaders, arg \in {1, NumUsers + 1} :
                  ReadCall(p, op, arg)
        \/ /\ Ready(p)
           /\ \E n \in {1, NumUsers + 1} :
                  WriteCall(p, "RegisterUser",
                            [EmptyFrame EXCEPT !.user.Username = n,
                                               !.user.Password = "pw"])
        \/ /\ Ready(p)
           /\ \E n \in SubredditIDs, u \in DmUserIDs :
                  WriteCall(p, "CreateSubreddit",
                            [EmptyFrame EXCEPT !.subreddit.Name = n,
                                               !.subreddit.CreatedBy = u])
        \/ /\ Ready(p)
           /\ \E u \in DmUserIDs, s \in SubredditIDs :
                  WriteCall(p, "JoinSubreddit",
                            [EmptyFrame EXCEPT !.userID = u,
                                               !.targetID = s])
        \/ /\ Ready(p)
           /\ \E u \in DmUserIDs, s \in SubredditIDs :
                  WriteCall(p, "LeaveSubreddit",
                            [EmptyFrame EXCEPT !.userID = u,
                                               !.targetID = s])
        \/ /\ Ready(p)
           /\ \E u \in DmUserIDs, s \in SubredditIDs :
                  WriteCall(p, "CreatePost",
                            [EmptyFrame EXCEPT !.post.AuthorID = u,
                                               !.post.SubredditID = s])
        \/ /\ Ready(p)
           /\ \E u \in DmUserIDs, t \in DmTargetIDs :
                  WriteCall(p, "CreateComment",
                            [EmptyFrame EXCEPT !.comment.AuthorID = u,
                                               !.comment.PostID = t])
        \/ /\ Ready(p)
           /\ \E u \in DmUserIDs :
                  WriteCall(p, "SendDirectMessage",
                            [EmptyFrame EXCEPT !.message.SenderID = u,
                                               !.message.ReceiverID = 1])
        \/ /\ Ready(p)
           /\ WriteCall(p, "ResetDatabase", EmptyFrame)
        \/ VoteLock(p)
        \/ VoteInsert(p)
        \/ VoteKarma(p)
        \/ VoteCommit(p)
        \/ WriteLock(p)
        \/ DmRegisterUser(p)
        \/ DmCreateSubreddit(p)
        \/ DmJoinSubreddit(p)
        \/ DmLeaveSubreddit(p)
        \/ DmCreatePost(p)
        \/ DmCreateComment(p)
        \/ SendDirectMessage(p)
        \/ ResetDatabase(p)
        \/ ReadRLock(p)
        \/ ReadQuery(p)
    \/ Tick

SpecManager == Init /\ [][NextManager]_vars

(* ------------------------- notions of the claims ----------------------- *)
\* value of a vote: +1 for an upvote, -1 for a downvote
VoteValue(voteType) == IF voteType = "upvote" THEN 1
                       ELSE IF voteType = "downvote" THEN -1 ELSE 0

\* live votes of user u on the target (type, id)
VotesOn(u, type, id) ==
    {w \in DOMAIN votes :
        /\ votes[w].UserID = u
        /\ id # NULL
        /\ \/ type = "post" /\ votes[w].PostID = id
           \/ type = "comment" /\ votes[w].CommentID = id}

\* live votes of any user on the target (type, id)
AllVotesOn(type, id) == UNION {VotesOn(u, type, id) : u \in Users}

\* sum of the values of the live votes on the target
VoteSum(type, id) ==
    Cardinality({w \in AllVotesOn(type, id) : votes[w].VoteType = "upvote"})
    - Cardinality({w \in AllVotesOn(type, id) :
                        votes[w].VoteType = "downvote"})

\* the target a request names: the post when a post id is given
ReqType(v) == IF v.PostID # NULL THEN "post" ELSE "comment"
ReqID(v) == IF v.PostID # NULL THEN v.PostID ELSE v.CommentID

\* stored karma of a target
KarmaOf(type, id) == IF type = "post" THEN posts[id].Karma
                     ELSE comments[id].Karma
Exists(type, id) == IF type = "post" THEN id \in DOMAIN posts
                    ELSE id \in DOMAIN comments

VoteOps == {"CastVote", "ChangeVote", "RemoveVote"}

\* a vote operation is running in goroutine p
InVoteOp(p) == ~Idle(p) /\ frame[p].op \in VoteOps

\* goroutine p has written its vote and not yet finished its karma update
HalfApplied(p) == pc[p] \in {"UpdateKarma_get", "UpdateKarma_update"}

\* goroutine p is past its existence check and has not finished
PastCheck(p) == pc[p] \in {"CastVote_create", "ChangeVote_update",
                           "RemoveVote_delete", "UpdateKarma_get",
                           "UpdateKarma_update"}

\* the step is taken by goroutine q
StepBy(q) == \/ pc'[q] # pc[q]
             \/ frame'[q] # frame[q]
             \/ DBMu' = q /\ DBMu # q

(* ------------------------------- claims -------------------------------- *)
\* C1: in every reachable state the vote store holds at most one vote for
\* each (user, post, comment) triple.
C1_OneVotePerUserTarget ==
    \A a, b \in DOMAIN votes :
        (/\ votes[a].UserID = votes[b].UserID
         /\ votes[a].PostID = votes[b].PostID
         /\ votes[a].CommentID = votes[b].CommentID) => a = b

\* C3: whenever no vote operation is in progress, the stored karma of every
\* post and comment equals the sum of the values of the live votes on it.
C3_KarmaIsVoteSum ==
    (\A p \in Procs : ~InVoteOp(p)) =>
        /\ \A i \in DOMAIN posts : posts[i].Karma = VoteSum("post", i)
        /\ \A c \in DOMAIN comments :
               comments[c].Karma = VoteSum("comment", c)

\* C4: between the existence check of a vote operation and the end of that
\* operation no other goroutine changes the store.
C4_NoInterleavedWrite ==
    [][\A p \in Procs : PastCheck(p) =>
          \A q \in Procs \ {p} : StepBy(q) => store' = store]_vars

\* C5: a reader inside GetVote, GetPostByID or GetCommentByID never reads
\* the vote or the target of an operation that has written its vote and not
\* yet its karma.
C5_NoHalfAppliedRead ==
    \A r \in Procs :
        (pc[r] \in {"GetVote_get", "GetPostByID_get", "GetCommentByID_get"}
         /\ DBMu = r) =>
            \A p \in Procs \ {r} :
                HalfApplied(p) =>
                    ~(/\ frame[p].targetType =
                            (IF frame[r].op = "GetVote"
                             THEN ReqType(frame[r].vote)
                             ELSE frame[r].targetType)
                      /\ frame[p].targetID =
                            (IF frame[r].op = "GetVote"
                             THEN ReqID(frame[r].vote)
                             ELSE frame[r].targetID))

\* the karma update of goroutine p ends its vote operation in this step
EndsVoteOp(p) == HalfApplied(p) /\ DBMu = p /\ pc'[p] = "idle"

\* after the step the vote change of goroutine p is in the store
VoteChangeStored(p) ==
    LET f == frame[p]
    IN CASE f.op = "CastVote" -> f.vote.ID \in DOMAIN votes'
         [] f.op = "ChangeVote" ->
                /\ f.existingVote.ID \in DOMAIN votes'
                /\ votes'[f.existingVote.ID].VoteType = f.vote.VoteType
         [] OTHER -> f.existingVote.ID \notin DOMAIN votes'

\* the step adds the delta of goroutine p to the stored karma of its target
ScoreChangeStored(p) ==
    LET f == frame[p]
    IN /\ Exists(f.targetType, f.targetID)
       /\ IF f.targetType = "post"
          THEN /\ f.targetID \in DOMAIN posts'
               /\ posts'[f.targetID].Karma = posts[f.targetID].Karma + f.delta
          ELSE /\ f.targetID \in DOMAIN comments'
               /\ comments'[f.targetID].Karma =
                      comments[f.targetID].Karma + f.delta

\* C2: a vote operation ends with both its vote change and its score
\* change persisted, or, when the karma update failed, with neither.
C2_VoteAndKarmaTogether ==
    [][\A p \in Procs : EndsVoteOp(p) =>
          \/ /\ response'.result = "ok"
             /\ VoteChangeStored(p)
             /\ ScoreChangeStored(p)
          \/ /\ response'.result # "ok"
             /\ ~VoteChangeStored(p)
             /\ ~ScoreChangeStored(p)]_vars

\* the lookup step of an operation of goroutine p is taken
Checks(p, at) == InRepo(p, at) /\ pc'[p] # pc[p]

\* C6: CastVote by a user who already has a vote on the target fails with
\* the conflict error and changes neither the vote store nor any karma.
C6_CastConflict ==
    [][\A p \in Procs :
          (/\ Checks(p, "CastVote_get")
           /\ VotesOn(frame[p].vote.UserID, ReqType(frame[p].vote),
                      ReqID(frame[p].vote)) # {}) =>
              /\ pc'[p] = "idle"
              /\ response' = Return("CastVote", "conflict")
              /\ store' = store]_vars

C6_Witness ==
    /\ response = Return("CastVote", "conflict")
    /\ votes # <<>>

\* the final karma write of goroutine p finds the karma it has read
KarmaWrite(p, op) ==
    /\ InRepo(p, "UpdateKarma_update")
    /\ pc'[p] = "idle"
    /\ frame[p].op = op
    /\ Exists(frame[p].targetType, frame[p].targetID)
    /\ KarmaOf(frame[p].targetType, frame[p].targetID) + frame[p].delta
          = frame[p].target.Karma

\* the step changes the karma of the target of p by d and no other karma
KarmaMoves(p, d) ==
    LET f == frame[p]
    IN /\ DOMAIN posts' = DOMAIN posts
       /\ DOMAIN comments' = DOMAIN comments
       /\ \A i \in DOMAIN posts :
              posts'[i].Karma = posts[i].Karma +
                 (IF f.targetType = "post" /\ f.targetID = i THEN d ELSE 0)
       /\ \A c \in DOMAIN comments :
              comments'[c].Karma = comments[c].Karma +
                 (IF f.targetType = "comment" /\ f.targetID = c THEN d ELSE 0)

\* C7: CastVote by a user with no vote on an existing target stores one
\* vote with the requested value and changes the stored karma of the target
\* by exactly that value (+1 / -1), and no other karma.
C7_CastAppliesValue ==
    [][\A p \in Procs :
          /\ (/\ InRepo(p, "CastVote_create")
               /\ frame[p].vote.VoteType \in {"upvote", "downvote"}
               /\ Exists(ReqType(frame[p].vote), ReqID(frame[p].vote))
               /\ VotesOn(frame[p].vote.UserID, ReqType(frame[p].vote),
                          ReqID(frame[p].vote)) = {}
               /\ pc'[p] # pc[p]) =>
                 \E w \in DOMAIN votes' :
                    /\ w \notin DOMAIN votes
                    /\ DOMAIN votes' = DOMAIN votes \cup {w}
                    /\ votes'[w].UserID = frame[p].vote.UserID
                    /\ votes'[w].PostID = frame[p].vote.PostID
                    /\ votes'[w].CommentID = frame[p].vote.CommentID
                    /\ votes'[w].VoteType = frame[p].vote.VoteType
          /\ KarmaWrite(p, "CastVote") =>
                 /\ response' = Return("CastVote", "ok")
                 /\ KarmaMoves(p, VoteValue(frame[p].vote.VoteType))]_vars

\* C8: ChangeVote of an existing vote to the opposite value stores the new
\* value and changes the karma of the target by newValue - oldValue.
C8_ChangeAppliesDifference ==
    [][\A p \in Procs :
          /\ (/\ InRepo(p, "ChangeVote_update")
               /\ frame[p].existingVote.ID \in DOMAIN votes
               /\ pc'[p] # pc[p]) =>
                 /\ DOMAIN votes' = DOMAIN votes
                 /\ votes'[frame[p].existingVote.ID].VoteType =
                        frame[p].vote.VoteType
          /\ KarmaWrite(p, "ChangeVote") =>
                 /\ response' = Return("ChangeVote", "ok")
                 /\ KarmaMoves(p,
                        VoteValue(frame[p].vote.VoteType)
                        - VoteValue(IF frame[p].vote.VoteType = "upvote"
                                    THEN "downvote" ELSE "upvote"))]_vars

\* C9: ChangeVote to the value the existing vote already has is rejected as
\* a no-op, and neither the stored vote nor any karma changes.
C9_ChangeSameValueNoOp ==
    [][\A p \in Procs :
          LET v == frame[p].vote
              mine == VotesOn(v.UserID, ReqType(v), ReqID(v))
          IN (/\ Checks(p, "ChangeVote_get")
              /\ mine # {}
              /\ \A w \in mine : votes[w].VoteType = v.VoteType) =>
                 /\ pc'[p] = "idle"
                 /\ response' = Return("ChangeVote", "noop")
                 /\ store' = store]_vars

C9_Witness ==
    /\ response = Return("ChangeVote", "noop")
    /\ votes # <<>>

\* C10: ChangeVote and RemoveVote by a user who has no vote on the target
\* fail with the not-found error and change neither the vote store nor any
\* karma.
C10_NoVoteNotFound ==
    [][\A p \in Procs :
          LET v == frame[p].vote
          IN (/\ Checks(p, "ChangeVote_get") \/ Checks(p, "RemoveVote_get")
              /\ VotesOn(v.UserID, ReqType(v), ReqID(v)) = {}) =>
                 /\ pc'[p] = "idle"
                 /\ response' = Return(frame[p].op, "not_found")
                 /\ store' = store]_vars

C10_Witness ==
    /\ response \in {Return("ChangeVote", "not_found"),
                      Return("RemoveVote", "not_found")}
    /\ votes # <<>>

\* C11: RemoveVote of an existing vote deletes it and changes the karma of
\* the target by the negation of the value of the removed vote (-1 for an
\* upvote, +1 for a downvote).
C11_RemoveAppliesNegation ==
    [][\A p \in Procs :
          /\ (/\ Checks(p, "RemoveVote_get")
              /\ pc'[p] = "RemoveVote_delete") =>
                 /\ frame'[p].existingVote.ID \in DOMAIN votes
                 /\ frame'[p].delta =
                       -VoteValue(votes[frame'[p].existingVote.ID].VoteType)
          /\ (/\ InRepo(p, "RemoveVote_delete")
              /\ frame[p].existingVote.ID \in DOMAIN votes
              /\ pc'[p] # pc[p]) =>
                 /\ DOMAIN votes' = DOMAIN votes \ {frame[p].existingVote.ID}
                 /\ \A w \in DOMAIN votes' : votes'[w] = votes[w]
          /\ KarmaWrite(p, "RemoveVote") =>
                 /\ response' = Return("RemoveVote", "ok")
                 /\ KarmaMoves(p, frame[p].delta)]_vars

\* a call starts in this step and goroutine p runs it
CallBy(p) == /\ Idle(p)
             /\ \A q \in Procs : q < p => ~Idle(q)
             /\ ops' = ops + 1

\* C12: CastVote, ChangeVote and RemoveVote whose target names both a post
\* and a comment, or neither, fail with the invalid-target error before any
\* read of the store and change no state: a vote operation that goes on to
\* its lookup has a target naming exactly one of the two, and a call that
\* returns at once leaves the store as it was.
C12_InvalidTargetRejected ==
    [][\A p \in Procs :
          CallBy(p) =>
             /\ (pc'[p] # "idle" /\ frame'[p].op \in VoteOps) =>
                    ValidTarget(frame'[p].vote)
             /\ (pc'[p] = "idle" /\ response'.op \in VoteOps) =>
                    /\ response'.result \in {"invalid_target", "invalid_type"}
                    /\ store' = store
                    /\ DBMu' = DBMu]_vars

\* stored karma of the target of request v in the snapshot b of the store
KarmaIn(b, v) == IF ReqType(v) = "post" THEN b[2][ReqID(v)].Karma
                 ELSE b[3][ReqID(v)].Karma

\* C13: a successful CastVote followed immediately by RemoveVote of the same
\* user and target leaves the karma of the target equal to its value before
\* the cast and the votes table as before the cast.
C13_CastThenRemoveRestores ==
    hist.rt.stage = "done" =>
        /\ hist.rt.result = "ok"
        /\ votes = hist.rt.before[1]
        /\ Exists(ReqType(hist.rt.vote), ReqID(hist.rt.vote))
        /\ KarmaOf(ReqType(hist.rt.vote), ReqID(hist.rt.vote))
              = KarmaIn(hist.rt.before, hist.rt.vote)

C13_Witness ==
    /\ hist.rt.stage = "done"
    /\ response = Return("RemoveVote", "ok")
    /\ nextVoteID > 1

\* the karma of post 1 the scenario expects after each of its steps
ScenarioKarma == <<1, 2, 0, -1>>

\* C14: starting from karma 0 and the sequential run "A casts +1, B casts
\* +1, A changes to -1, B removes the vote", the stored karma of the target
\* after each step is 1, 2, 0, -1.
C14_ScenarioKarma ==
    (hist.sc >= 1 /\ \A p \in Procs : Idle(p)) =>
        /\ 1 \in DOMAIN posts
        /\ posts[1].Karma = ScenarioKarma[hist.sc]

\* C15: UpdateKarma on an existing post or comment leaves the stored karma
\* of that target equal to its previously stored karma plus delta; on an
\* absent target it fails with the not-found error and writes nothing.
C15_UpdateKarmaAddsDelta ==
    [][\A p \in Procs :
          /\ (/\ InRepo(p, "UpdateKarma_get")
              /\ pc'[p] # pc[p]
              /\ ~Exists(frame[p].targetType, frame[p].targetID)) =>
                 /\ pc'[p] = "idle"
                 /\ response'.result = "target_not_found"
                 /\ store' = store
          /\ (/\ InRepo(p, "UpdateKarma_update")
              /\ pc'[p] # pc[p]
              /\ Exists(frame[p].targetType, frame[p].targetID)
              /\ KarmaOf(frame[p].targetType, frame[p].targetID)
                    + frame[p].delta = frame[p].target.Karma) =>
                 /\ response'.result = "ok"
                 /\ KarmaMoves(p, frame[p].delta)]_vars

\* every call made so far was a CastVote that stored its vote and returned,
\* there were at least two, by different users, all on the target (type, id)
OnlyCastsOn(type, id) ==
    /\ \A p \in Procs : Idle(p)
    /\ ops >= 2
    /\ Cardinality(DOMAIN votes) = ops
    /\ DOMAIN votes = AllVotesOn(type, id)
    /\ \A a, b \in DOMAIN votes : votes[a].UserID = votes[b].UserID => a = b

\* stored karma and vote sum of every target all calls so far have cast on
CastsAddUp ==
    /\ \A i \in DOMAIN posts :
           OnlyCastsOn("post", i) => posts[i].Karma = VoteSum("post", i)
    /\ \A c \in DOMAIN comments :
           OnlyCastsOn("comment", c) =>
               comments[c].Karma = VoteSum("comment", c)

\* C16: when vote operations by different users on the same target run
\* concurrently and all succeed, the final karma of the target is the
\* starting karma (0) plus the sum of their deltas, for every interleaving.
\* A goroutine other than the first serves a call only while the first is
\* busy, so a call it ends has run concurrently with another.
C16_NoLostUpdate ==
    [][\A p \in Procs \ {Min(Procs)} :
          (InRepo(p, "UpdateKarma_update") /\ pc'[p] = "idle") =>
              CastsAddUp']_vars

\* the step leaves the stored karma of every post and comment that it does
\* not delete as it is
KarmaUnchanged ==
    /\ \A i \in DOMAIN posts \cap DOMAIN posts' :
           posts'[i].Karma = posts[i].Karma
    /\ \A c \in DOMAIN comments \cap DOMAIN comments' :
           comments'[c].Karma = comments[c].Karma

\* the step deletes no post and no comment
NoneDeleted ==
    /\ DOMAIN posts \subseteq DOMAIN posts'
    /\ DOMAIN comments \subseteq DOMAIN comments'

\* C17: the stored karma of a post or comment is changed only by the karma
\* update of a vote operation: every step other than the write of
\* UpdateKarma leaves the karma of every post and comment that it does not
\* delete unchanged, and every step of UpdatePost, UpdateComment, AddComment
\* and ReplyToComment deletes none and leaves the karma of all unchanged.
C17_KarmaOnlyByUpdateKarma ==
    [][/\ \/ KarmaUnchanged
          \/ \E p \in Procs : /\ InRepo(p, "UpdateKarma_update")
                              /\ pc'[p] = "idle"
       /\ \A p \in Procs :
              (/\ StepBy(p)
               /\ frame[p].op \in {"UpdatePost", "UpdateComment",
                                   "AddComment", "ReplyToComment"}) =>
                  KarmaUnchanged /\ NoneDeleted]_vars

C17_Witness ==
    /\ response = Return("UpdateComment", "ok")
    /\ \E c \in DOMAIN comments : comments[c].Content = "c1"
    /\ Cardinality(DOMAIN comments) >= 2

\* C18: in every reachable state produced by AddComment, ReplyToComment and
\* UpdateComment, every comment whose parent id is set references an
\* existing comment that belongs to the same post as the comment itself.
C18_ParentInSamePost ==
    \A c \in DOMAIN comments :
        comments[c].ParentID # NULL =>
            /\ comments[c].ParentID \in DOMAIN comments
            /\ comments[comments[c].ParentID].PostID = comments[c].PostID

\* C19: AddComment and SendMessage always persist a node whose parent id is
\* null, whatever parent id the caller supplies in the request.
C19_RootHasNoParent ==
    [][\A p \in Procs :
          /\ (InRepo(p, "AddComment_create") /\ comments' # comments) =>
                 comments'[nextCommentID].ParentID = NULL
          /\ (InRepo(p, "SendMessage_create") /\ messages' # messages) =>
                 messages'[nextMessageID].ParentID = NULL]_vars

\* C20: ReplyToComment on an existing parent persists a comment whose parent
\* id is the id of the parent and whose post is the post of the parent,
\* whatever post id the caller supplies: the insert of a reply whose parent
\* is stored and whose author is registered returns nil and adds that one
\* row.
C20_ReplyUnderParent ==
    [][\A p \in Procs :
          (/\ InRepo(p, "ReplyToComment_create")
           /\ pc'[p] # pc[p]
           /\ GetUserByID(frame[p].comment.AuthorID)
           /\ frame[p].comment.ParentID \in DOMAIN comments) =>
              /\ response' = Return("ReplyToComment", "ok")
              /\ DOMAIN comments' = DOMAIN comments \cup {nextCommentID}
              /\ \A c \in DOMAIN comments : comments'[c] = comments[c]
              /\ comments'[nextCommentID].ParentID =
                     frame[p].comment.ParentID
              /\ comments'[nextCommentID].PostID =
                     comments[frame[p].comment.ParentID].PostID]_vars

C20_Witness ==
    /\ response = Return("ReplyToComment", "ok")
    /\ \E c \in DOMAIN comments :
           /\ comments[c].ParentID \in DOMAIN comments
           /\ comments[c].PostID = comments[comments[c].ParentID].PostID

\* C21: ReplyToComment and ReplyToMessage with a parent id that references
\* no existing node return the not-found error and create no node: a reply
\* call with content and an existing author or sender whose parent is not
\* in the store does not return at once with another error, its parent
\* lookup returns not-found with both stores unchanged, and no insert of a
\* reply runs while its parent is missing.
C21_ReplyToMissingParent ==
    [][\A p \in Procs :
          /\ \A body \in ReplyBodies :
                 (/\ body.Content # ""
                  /\ ReplyToMessageCall(p, nextMessageID, body)
                  /\ pc'[p] = "idle") =>
                     response'.result = "parent_not_found"
          /\ \A body \in CommentBodies({NULL}, {NULL}) :
                 (/\ body.Content # ""
                  /\ GetUserByID(body.AuthorID)
                  /\ ReplyToCommentCall(p, nextCommentID, body)
                  /\ pc'[p] = "idle") =>
                     response'.result = "parent_not_found"
          /\ (/\ Checks(p, "ReplyToMessage_parent")
              /\ frame[p].message.ParentID \notin DOMAIN messages) =>
                 /\ response' = Return("ReplyToMessage", "parent_not_found")
                 /\ UNCHANGED <<comments, messages>>
          /\ (/\ Checks(p, "ReplyToComment_parent")
              /\ frame[p].comment.ParentID \notin DOMAIN comments) =>
                 /\ response' = Return("ReplyToComment", "parent_not_found")
                 /\ UNCHANGED <<comments, messages>>
          /\ (/\ InRepo(p, "ReplyToMessage_create")
              /\ frame[p].message.ParentID \notin DOMAIN messages) =>
                 UNCHANGED messages
          /\ (/\ InRepo(p, "ReplyToComment_create")
              /\ frame[p].comment.ParentID \notin DOMAIN comments) =>
                 UNCHANGED comments]_vars

\* following parent ids from node id of the table reaches a node without
\* parent within n steps
RECURSIVE ReachesRoot(_, _, _)
ReachesRoot(table, id, n) ==
    IF table[id].ParentID = NULL THEN TRUE
    ELSE IF n = 0 \/ table[id].ParentID \notin DOMAIN table THEN FALSE
    ELSE ReachesRoot(table, table[id].ParentID, n - 1)

\* the table is a forest: a chain of parents that has not ended after as
\* many steps as there are nodes runs in a cycle
Forest(table) ==
    \A id \in DOMAIN table :
        ReachesRoot(table, id, Cardinality(DOMAIN table))

\* C22: the comment store and the message store are each a forest in every
\* reachable state: following the parent id from any node reaches a node
\* with null parent id in finitely many steps, and no node is its own parent
\* or ancestor.
C22_StoresAreForests == Forest(comments) /\ Forest(messages)

\* C23: ReplyToMessage with non-empty content, an existing sender and an
\* existing parent whose sender differs from the replying sender succeeds
\* for every receiver the caller supplies, and the stored receiver of the
\* reply is the sender of the parent message: such a call does not return
\* at once, passes its two lookups, and its insert returns nil and stores a
\* message whose receiver is the sender of the parent.
C23_ReplyGoesToParentSender ==
    [][\A p \in Procs :
          /\ \A parentID \in DOMAIN messages, body \in ReplyBodies :
                 (/\ body.Content # ""
                  /\ GetUserByID(body.SenderID)
                  /\ messages[parentID].SenderID # body.SenderID
                  /\ ReplyToMessageCall(p, parentID, body)) =>
                     pc'[p] = "ReplyToMessage_sender"
          /\ (/\ Checks(p, "ReplyToMessage_sender")
              /\ GetUserByID(frame[p].message.SenderID)) =>
                 pc'[p] = "ReplyToMessage_parent"
          /\ (/\ Checks(p, "ReplyToMessage_parent")
              /\ frame[p].message.ParentID \in DOMAIN messages) =>
                 pc'[p] = "ReplyToMessage_create"
          /\ (/\ Checks(p, "ReplyToMessage_create")
              /\ GetUserByID(frame[p].message.SenderID)
              /\ frame[p].message.ParentID \in DOMAIN messages
              /\ messages[frame[p].message.ParentID].SenderID #
                     frame[p].message.SenderID) =>
                 /\ response' = Return("ReplyToMessage", "ok")
                 /\ DOMAIN messages' = DOMAIN messages \cup {nextMessageID}
                 /\ messages'[nextMessageID].ReceiverID =
                        messages[frame[p].message.ParentID].SenderID
                 /\ messages'[nextMessageID].ParentID =
                        frame[p].message.ParentID]_vars

\* C24: SendMessage and ReplyToMessage reject, before any write, a message
\* whose sender equals its resolved receiver (for a reply: the sender of the
\* parent message), so in every reachable state no stored message has its
\* sender as receiver.
C24_NoMessageToSelf ==
    \A m \in DOMAIN messages : messages[m].SenderID # messages[m].ReceiverID

\* the row sequence holds rows of the table, each at most once
RowsOf(rows, table) ==
    /\ \A i \in 1..Len(rows) :
           rows[i].ID \in DOMAIN table /\ rows[i] = [ID |-> rows[i].ID] @@
                                                    table[rows[i].ID]
    /\ \A i, j \in 1..Len(rows) : rows[i].ID = rows[j].ID => i = j

\* C25: GetCommentsByPost(postID) returns only comments with null parent id
\* that belong to postID, and GetMessagesForUser(userID) returns only
\* messages with null parent id whose receiver is userID; no reply at any
\* depth is ever returned: the rows a query returns are rows of the table at
\* the time of the query, each with a null parent id and the id asked for.
C25_ListRootsOnly ==
    [][\A p \in Procs :
          /\ Checks(p, "GetCommentsByPost_query") =>
                 /\ listing'.op = "GetCommentsByPost"
                 /\ listing'.arg = frame[p].targetID
                 /\ RowsOf(listing'.rows, comments)
                 /\ \A i \in 1..Len(listing'.rows) :
                        /\ listing'.rows[i].ParentID = NULL
                        /\ listing'.rows[i].PostID = frame[p].targetID
          /\ Checks(p, "GetMessagesForUser_query") =>
                 /\ listing'.op = "GetMessagesForUser"
                 /\ listing'.arg = frame[p].targetID
                 /\ RowsOf(listing'.rows, messages)
                 /\ \A i \in 1..Len(listing'.rows) :
                        /\ listing'.rows[i].ParentID = NULL
                        /\ listing'.rows[i].ReceiverID =
                               frame[p].targetID]_vars

\* a listing of post 1 has returned a comment while the post has replies
\* at two depths
C25_Witness ==
    /\ listing.op = "GetCommentsByPost"
    /\ listing.arg = 1
    /\ Len(listing.rows) >= 1
    /\ \E c, d \in DOMAIN comments :
           /\ comments[c].PostID = 1 /\ comments[d].PostID = 1
           /\ comments[c].ParentID = d
           /\ comments[d].ParentID \notin {NULL, c, d}

\* row a comes before row b in a newest-first order whose ties are broken by
\* descending id
NewerFirst(a, b) ==
    \/ a.CreatedAt > b.CreatedAt
    \/ a.CreatedAt = b.CreatedAt /\ a.ID > b.ID

\* the pages of the given limit, taken one after the other from offset 0,
\* are the consecutive pieces of the whole listing all
PagesCover(Page(_, _), all, limit) ==
    \A k \in 0..Len(all) :
        Page(limit, k * limit) =
            SubSeq(all, k * limit + 1, Min({Len(all), (k + 1) * limit}))

\* C26: GetCommentsByPost and GetMessagesForUser order their results
\* newest-first with equal creation times broken by descending id, so the
\* order is a deterministic total order and, with no intervening writes,
\* successive pages (offset 0, limit, 2*limit, ...) return every root node
\* exactly once with none duplicated or omitted.
C26_RootsNewestFirst ==
    /\ listing.op \in {"GetCommentsByPost", "GetMessagesForUser"} =>
           \A i, j \in 1..Len(listing.rows) :
               i < j => NewerFirst(listing.rows[i], listing.rows[j])
    /\ \A postID \in DOMAIN posts, limit \in Limits :
           LET Page(l, o) == SelectCommentsByPost(postID, l, o)
               all == Page(Cardinality(DOMAIN comments), 0)
           IN /\ PagesCover(Page, all, limit)
              /\ {all[i].ID : i \in 1..Len(all)} =
                     {c \in DOMAIN comments :
                         RootCommentWhere(comments[c], postID)}
    /\ \A userID \in Users, limit \in Limits :
           LET Page(l, o) == SelectMessagesForUser(userID, l, o)
               all == Page(Cardinality(DOMAIN messages), 0)
           IN /\ PagesCover(Page, all, limit)
              /\ {all[i].ID : i \in 1..Len(all)} =
                     {m \in DOMAIN messages :
                         RootMessageWhere(messages[m], userID)}

\* row a comes before row b in an oldest-first order whose ties are broken
\* by ascending id
OlderFirst(a, b) ==
    \/ a.CreatedAt < b.CreatedAt
    \/ a.CreatedAt = b.CreatedAt /\ a.ID < b.ID

\* rows is the page (limit, offset) of the direct children of parentID in
\* the table, oldest first: its rows are stored rows whose parent is
\* parentID, in order, and they are the children that have at least offset
\* and fewer than offset + limit children before them
DirectChildrenPage(rows, table, parentID, limit, offset) ==
    LET kids == {c \in DOMAIN table : table[c].ParentID = parentID}
        Row(c) == [ID |-> c] @@ table[c]
        rank(c) == Cardinality({d \in kids : OlderFirst(Row(d), Row(c))})
    IN /\ RowsOf(rows, table)
       /\ \A i \in 1..Len(rows) : rows[i].ParentID = parentID
       /\ \A i, j \in 1..Len(rows) : i < j => OlderFirst(rows[i], rows[j])
       /\ {rows[i].ID : i \in 1..Len(rows)} =
              {c \in kids : offset <= rank(c) /\ rank(c) < offset + limit}

\* C27: GetReplies(parentID) for comments and for messages returns exactly
\* the nodes whose parent id equals parentID (never grandchildren or deeper
\* descendants), ordered oldest-first with equal creation times broken by
\* ascending id; with a limit and an offset, the page of that order.
C27_RepliesAreDirectChildren ==
    [][\A p \in Procs :
          /\ Checks(p, "GetReplies_query") =>
                 /\ listing'.op = "GetReplies"
                 /\ DirectChildrenPage(listing'.rows, comments,
                                       frame[p].targetID, frame[p].limit,
                                       frame[p].offset)
          /\ Checks(p, "MessageGetReplies_query") =>
                 /\ listing'.op = "MessageGetReplies"
                 /\ DirectChildrenPage(listing'.rows, messages,
                                       frame[p].targetID, frame[p].limit,
                                       frame[p].offset)]_vars

\* a listing of the replies of message 1 has returned two replies of the
\* same second, while one of them has a reply of its own
C27_Witness ==
    /\ listing.op = "MessageGetReplies"
    /\ listing.arg = 1
    /\ Len(listing.rows) = 2
    /\ listing.rows[1].CreatedAt = listing.rows[2].CreatedAt
    /\ \E m \in DOMAIN messages : messages[m].ParentID = listing.rows[1].ID

\* C28: the result of GetReplies(parentID) is unchanged by any insert of a
\* node under a different parent, including inserts that run concurrently
\* with the listing: a step that stores a comment whose parent is not
\* parentID leaves every page of the replies of parentID as it was, also
\* while a GetReplies(parentID) call is between its parent lookup and its
\* query.
C28_RepliesUnaffectedByOtherInserts ==
    [][\A parentID \in DOMAIN comments, limit \in Limits, offset \in Offsets :
          (/\ DOMAIN comments' = DOMAIN comments \cup {nextCommentID}
           /\ nextCommentID \notin DOMAIN comments
           /\ comments'[nextCommentID].ParentID # parentID) =>
              SelectReplies(parentID, limit, offset)' =
                  SelectReplies(parentID, limit, offset)]_vars

\* a GetReplies call on a comment that has a reply is between its parent
\* lookup and its query while another goroutine, holding the mutex, is about
\* to insert a comment under another parent
C28_Witness ==
    \E p, q \in Procs :
        /\ pc[p] = "GetReplies_query"
        /\ Len(SelectReplies(frame[p].targetID, frame[p].limit,
                             frame[p].offset)) >= 1
        /\ InRepo(q, "ReplyToComment_create")
        /\ frame[q].comment.ParentID \in DOMAIN comments
        /\ frame[q].comment.ParentID # frame[p].targetID

\* the table after the step is the table before it with the content of node
\* id replaced
OnlyContentOf(before, after, id, content) ==
    /\ DOMAIN after = DOMAIN before
    /\ \A i \in DOMAIN before :
           after[i] = IF i = id THEN [before[i] EXCEPT !.Content = content]
                      ELSE before[i]

\* C29: UpdateComment and UpdateMessage change only the content (and update
\* timestamp) of the addressed node: its parent id, post, author or sender
\* and receiver, and every other node, are unchanged, whatever values the
\* caller supplies for those fields.  The lookup of the call keeps the
\* content of the request and changes no store, and the update writes that
\* content to the addressed row and nothing else.
C29_EditChangesContentOnly ==
    [][\A p \in Procs :
          /\ Checks(p, "UpdateComment_get") =>
                 /\ UNCHANGED <<comments, messages>>
                 /\ pc'[p] = "UpdateComment_update" =>
                        /\ frame'[p].comment.ID = frame[p].comment.ID
                        /\ frame'[p].comment.Content =
                               frame[p].comment.Content
          /\ Checks(p, "UpdateComment_update") =>
                 /\ OnlyContentOf(comments, comments', frame[p].comment.ID,
                                  frame[p].comment.Content)
                 /\ UNCHANGED messages
          /\ Checks(p, "UpdateMessage_get") =>
                 /\ UNCHANGED <<comments, messages>>
                 /\ pc'[p] = "UpdateMessage_update" =>
                        /\ frame'[p].message.ID = frame[p].message.ID
                        /\ frame'[p].message.Content =
                               frame[p].message.Content
          /\ Checks(p, "UpdateMessage_update") =>
                 /\ OnlyContentOf(messages, messages', frame[p].message.ID,
                                  frame[p].message.Content)
                 /\ UNCHANGED comments]_vars

\* an UpdateMessage has returned nil and a message carries the new
\* content, with the sender and the receiver it was sent with
C29_Witness ==
    /\ response = Return("UpdateMessage", "ok")
    /\ \E m \in DOMAIN messages :
           /\ messages[m].Content = "c2"
           /\ messages[m].SenderID # messages[m].ReceiverID

\* goroutine p has called Lock() and does not hold the mutex yet
Waiting(p) == pc[p] \in RepoCalls /\ DBMu # p

\* C30: every operation that waits for the store lock eventually acquires
\* it and completes, assuming a fair lock: the lock is released on every
\* path (success and error) of every repository operation and no operation
\* requests the lock while already holding it, so no state is a deadlock.
C30_LockEventuallyAcquired ==
    \A p \in Procs :
        /\ [](DBMu = p => pc[p] \in RepoCalls)
        /\ Waiting(p) ~> (DBMu = p)
        /\ (pc[p] # "idle") ~> (pc[p] = "idle")

\* a goroutine waits for the mutex that another goroutine holds
C30_Witness ==
    \E p, q \in Procs : Waiting(p) /\ DBMu = q /\ pc[q] \in RepoCalls

(* --------------------------- DatabaseManager claims -------------------- *)
\* sum of the values of the vote rows in S
RECURSIVE SumValues(_)
SumValues(S) ==
    IF S = {} THEN 0
    ELSE LET r == CHOOSE x \in S : TRUE
         IN r.Value + SumValues(S \ {r})

\* what the vote rows in S add up to for the user u, the author of their
\* targets in db
VotedKarma(db, S, u) ==
    SumValues({r \in S : AuthorOf(db, r.TargetType, r.TargetID) = u})

\* from db to next every vote row comes with its karma change and every
\* karma change with its vote row: the karma of a user changes by what the
\* new vote rows on the user's posts and comments add up to, a new user has
\* karma 0, and vote rows go only when every row of every table goes
Paired(db, next) ==
    \/ next = DmEmpty
    \/ /\ db.votes \subseteq next.votes
       /\ DOMAIN db.users \subseteq DOMAIN next.users
       /\ \A u \in DOMAIN db.users :
              next.users[u].Karma =
                  db.users[u].Karma
                      + VotedKarma(db, next.votes \ db.votes, u)
       /\ \A u \in DOMAIN next.users \ DOMAIN db.users :
              next.users[u].Karma = 0

\* goroutine p returns from method op in this step
Returns(p, op) == frame[p].op = op /\ pc[p] # "idle" /\ pc'[p] = "idle"

\* C31: DatabaseManager.Vote records the vote row and the karma update of
\* the author as one unit: a Vote that returns an error (the insert, the
\* karma update or the commit failed) leaves the database as it was; every
\* step takes the database from one state to the next with each new vote
\* row paired with the karma change of the author of its target; whenever a
\* reader holds dm.mu for reading no writer holds it and no transaction is
\* open; and the karma and the vote counts a reader returns are those of
\* the committed rows.
C31_VoteIsOneUnit ==
    [][/\ \A p \in Procs :
              Returns(p, "Vote") /\ response'.result # "ok" =>
                  dm_db' = dm_db
       /\ Paired(dm_db, dm_db')
       /\ \A p \in dm_mu'.readers :
              /\ dm_mu'.writer = NULL
              /\ \A q \in Procs : ~frame'[q].tx.open
       /\ \A p \in Procs :
              Returns(p, "GetTopUsers") \/ Returns(p, "GetUserByUsername")
                  => \A i \in 1..Len(listing'.rows) :
                         listing'.rows[i].Karma =
                             dm_db.users[listing'.rows[i].ID].Karma
       /\ \A p \in Procs :
              Returns(p, "GetFeed")
                  => \A i \in 1..Len(listing'.rows) :
                         listing'.rows[i].Upvotes
                             - listing'.rows[i].Downvotes =
                                 SumValues({r \in dm_db.votes :
                                     /\ r.TargetType = "post"
                                     /\ r.TargetID = listing'.rows[i].ID})
      ]_vars

\* the karma update of a Vote has failed, the Vote has returned the error,
\* and a reader holds dm.mu for reading afterwards
C31_Witness ==
    /\ response = Return("Vote", "karma_failed")
    /\ dm_mu.readers # {}

\* C32: the votes table of the DatabaseManager holds at most one row for
\* each (user, target, target type).
C32_OneRowPerUserTarget ==
    \A r1, r2 \in dm_db.votes :
        /\ r1.UserID = r2.UserID
        /\ r1.TargetID = r2.TargetID
        /\ r1.TargetType = r2.TargetType
        => r1 = r2

\* the post or comment exists in the database of the manager
DmExists(db, targetType, targetID) ==
    targetID \in DOMAIN (IF targetType = "post" THEN db.posts
                         ELSE db.comments)

\* C38: DatabaseManager.Vote on a target id that references no post or
\* comment returns an error and leaves no vote row for it in the database.
C38_VoteOnMissingTarget ==
    [][\A p \in Procs :
           /\ Returns(p, "Vote")
           /\ ~DmExists(dm_db, frame[p].targetType, frame[p].targetID)
           => /\ response'.result # "ok"
              /\ ~\E r \in dm_db'.votes :
                     /\ r.TargetType = frame[p].targetType
                     /\ r.TargetID = frame[p].targetID]_vars

(* ------------------------ vote values and targets ---------------------- *)
\* the vote types a stored vote may have
LegalVoteTypes == {"upvote", "downvote"}

\* C36: every stored vote has a value in {upvote, downvote}, and CastVote
\* and ChangeVote with any other vote type are rejected and change neither
\* the vote store nor any karma: ChangeVote with such a type never gets past
\* its entry, no step of such a call changes the store or goes on to the
\* karma update, and the call does not return success.
C36_VoteValueLegal ==
    [][/\ \A id \in DOMAIN votes' : votes'[id].VoteType \in LegalVoteTypes
       /\ \A p \in Procs :
              /\ (CallBy(p) /\ pc'[p] # "idle"
                            /\ frame'[p].op = "ChangeVote") =>
                     frame'[p].vote.VoteType \in LegalVoteTypes
              /\ (/\ ~Idle(p)
                  /\ frame[p].op \in {"CastVote", "ChangeVote"}
                  /\ frame[p].vote.VoteType \notin LegalVoteTypes
                  /\ StepBy(p)) =>
                     /\ store' = store
                     /\ ~HalfApplied(p)'
                     /\ pc'[p] = "idle" => response'.result # "ok"]_vars

\* a vote is stored and a CastVote with a vote type that is neither an
\* upvote nor a downvote is past its lookup, inside CreateVote
C36_Witness ==
    /\ DOMAIN votes # {}
    /\ \E p \in Procs : /\ InRepo(p, "CastVote_create")
                        /\ frame[p].vote.VoteType \notin LegalVoteTypes

\* C37: every stored vote references exactly one target, a post or a
\* comment, and RemoveVote never returns its "invalid vote target" error.
C37_VoteHasOneTarget ==
    /\ \A id \in DOMAIN votes :
           (votes[id].PostID = NULL) # (votes[id].CommentID = NULL)
    /\ response # Return("RemoveVote", "invalid_target")

\* a RemoveVote has deleted the vote it found and has taken the post or the
\* comment branch to its karma update
C37_Witness ==
    \E p \in Procs : /\ frame[p].op = "RemoveVote"
                     /\ pc[p] = "UpdateKarma_get"

(* --------------------------- votes and edits --------------------------- *)
\* the step leaves the title and content of every post and comment as they
\* are
ContentKept ==
    /\ \A i \in DOMAIN posts \cap DOMAIN posts' :
           posts'[i].Content = posts[i].Content
    /\ \A c \in DOMAIN comments \cap DOMAIN comments' :
           comments'[c].Content = comments[c].Content

\* C35: a vote operation never changes the title or content of its target:
\* no step of CastVote, ChangeVote or RemoveVote changes the content of a
\* post or comment, so an edit that commits while the operation is between
\* its read of the target and its karma write stays stored.
C35_VoteKeepsContent ==
    [][\A p \in Procs : InVoteOp(p) /\ StepBy(p) => ContentKept]_vars

(* -------------------------- concurrent removals ------------------------ *)
\* the RemoveVote calls for the vote of user u on post id that have
\* returned, in the order of their return; a call that names a post looks
\* the vote up by the post
RemovalsOf(u, id) ==
    SelectSeq(hist.log, LAMBDA e : /\ e.op = "RemoveVote"
                                   /\ e.vote.UserID = u
                                   /\ e.vote.PostID = id)

\* number of entries of the log L that report success
Succeeded(L) == Cardinality({i \in 1..Len(L) : L[i].result = "ok"})

\* the goroutines whose RemoveVote has deleted the vote and has its karma
\* update still to finish
Removing == {p \in Procs : frame[p].op = "RemoveVote" /\ HalfApplied(p)}

\* C34: of the RemoveVote calls for one existing vote that run concurrently
\* exactly one succeeds and the others return an error, and the karma update
\* of the removal is run at most once: at no time have two calls deleted the
\* vote or returned success between them, and once two or more calls for
\* the vote have returned and none is running, exactly one of them has
\* returned success.
C34_OneRemovalSucceeds ==
    LET L == RemovalsOf(1, 1)
    IN /\ Succeeded(L) + Cardinality(Removing) <= 1
       /\ ((\A p \in Procs : Idle(p)) /\ Len(L) >= 2) => Succeeded(L) = 1

\* two RemoveVote calls for the vote have returned, one with success and
\* one with the error of DeleteVote: both had read the vote before either
\* deleted it
C34_Witness ==
    LET L == RemovalsOf(1, 1)
    IN /\ Len(L) = 2
       /\ \E i \in 1..2 : L[i].result = "db_error"
       /\ \E i \in 1..2 : L[i].result = "ok"

(* --------------------------- mutual exclusion -------------------------- *)
\* goroutine p is inside a repository method: past its DBMu.Lock() and
\* before its deferred DBMu.Unlock()
InCriticalSection(p) == frame[p].locked

\* the repository methods that write: CreateVote, UpdateVote, DeleteVote,
\* UpdatePost, UpdateComment, CreateComment, SendMessage, CreatePost, the
\* five deletes, CreateUser, UpdateUser, CreateSubreddit, UpdateSubreddit
Writes == {"CastVote_create", "ChangeVote_update", "RemoveVote_delete",
           "UpdateKarma_update", "UpdatePost_update",
           "UpdateComment_update", "UpdateMessage_update",
           "AddComment_create", "ReplyToComment_create",
           "SendMessage_create", "ReplyToMessage_create",
           "CreatePost_create", "DeletePost_exec", "DeleteComment_exec",
           "DeleteMessage_exec", "DeleteUser_exec", "DeleteSubreddit_exec",
           "RegisterUser_create", "UpdateUserProfile_update",
           "CreateSubreddit_create", "UpdateSubreddit_update"}

\* goroutine p is inside a repository method that writes
Writing(p) == InCriticalSection(p) /\ pc[p] \in Writes

\* the tables of the repositories
tables == <<votes, posts, comments, messages, users, subreddits>>

\* C33: at no time are two repository methods inside their critical
\* sections together when at least one of them writes, and the tables
\* change only in a step of a goroutine that is inside a writing method.
C33_WritesExclude ==
    [][/\ \A p, q \in Procs :
              (p # q /\ InCriticalSection(p)' /\ InCriticalSection(q)') =>
                  ~(Writing(p)' \/ Writing(q)')
       /\ tables' # tables => \E p \in Procs : Writing(p) /\ StepBy(p)]_vars

\* a goroutine is inside a repository method that writes while another one
\* has called a repository method and waits for the mutex
C33_Witness ==
    \E p, q \in Procs : /\ p # q
                        /\ Writing(p)
                        /\ pc[q] \in RepoCalls
                        /\ ~InCriticalSection(q)

=============================================================================
